---- MODULE Spec2Model ----
(***************************************************************************)
(* A model of the mruby code generator (mrbgems/mruby-compiler/core/       *)
(* codegen.c).                                                             *)
(*                                                                         *)
(* The compile state g is one record: the chain of open scopes (root       *)
(* first, current scope last), the IR procedures finished so far, the      *)
(* close count of every arena ever opened, the pending fatal error, and    *)
(* the return value of the last call.  Every C function that takes a       *)
(* codegen_scope* is an operator from g to g; after a fatal error          *)
(* (MRB_THROW) every operator is the identity, which is how the model      *)
(* renders the long jump back to mrb_generate_code.                        *)
(*                                                                         *)
(* C arrays are 0-based, TLA+ sequences 1-based: iseq[pc] of the source is *)
(* s.iseq[pc + 1] here, and the sequence always has exactly s.pc elements  *)
(* (slots at and above s->pc are never read by the source).                *)
(***************************************************************************)
EXTENDS Integers, Sequences, FiniteSets, TLC

VARIABLES g, in, op
vars == <<g, in, op>>

(* ------------------------------------------------------------------ *)
(* Instruction encoding (mruby/opcode.h): A 9 bits, B 9 bits, C 7 bits, *)
(* Bx = B:C 16 bits, sBx = Bx - MAXARG_sBx, Ax = A:B:C 25 bits.         *)
(* ------------------------------------------------------------------ *)
MAXARG_sBx == 32767
CALL_MAXARGS == 127
OP_R_NORMAL == 0
OP_R_BREAK == 1
OP_R_RETURN == 2
OP_L_BLOCK == 2
OP_L_METHOD == 1
OP_L_LAMBDA == 3

MKOP_ABC(o, a, b, c) == [op |-> o, a |-> a % 512, b |-> b % 512, c |-> c % 128]
MKOP_A(o, a) == MKOP_ABC(o, a, 0, 0)
MKOP_AB(o, a, b) == MKOP_ABC(o, a, b, 0)
MKOP_ABx(o, a, bx) ==
  [op |-> o, a |-> a % 512, b |-> (bx % 65536) \div 128, c |-> bx % 128]
MKOP_Bx(o, bx) == MKOP_ABx(o, 0, bx)
MKOP_AsBx(o, a, sbx) == MKOP_ABx(o, a, sbx + MAXARG_sBx)
MKOP_sBx(o, sbx) == MKOP_AsBx(o, 0, sbx)
MKOP_Abc(o, a, b, c) == MKOP_ABx(o, a, (b % 16384) * 4 + (c % 4))
MKOP_Ax(o, ax) ==
  [op |-> o, a |-> (ax \div 65536) % 512, b |-> (ax \div 128) % 512, c |-> ax % 128]

GET_OPCODE(i) == i.op
GETARG_A(i) == i.a
GETARG_B(i) == i.b
GETARG_C(i) == i.c
GETARG_Bx(i) == i.b * 128 + i.c
GETARG_sBx(i) == GETARG_Bx(i) - MAXARG_sBx

(* ------------------------------------------------------------------ *)
(* Symbols.  mrb_sym is an integer, 0 is the null symbol.  The runtime's *)
(* intern table is a fixed injective map; the names the generator tests  *)
(* or interns itself get the numbers below, user identifiers the rest.   *)
(* ------------------------------------------------------------------ *)
SymNames ==
  <<"+", "-", "*", "/", "<", "<=", ">", ">=", "==", "===", "__case_eqq",
    "each", "StandardError", "__update", "intern", "call", "||", "&&",
    "alias_method", "undef_method">>

mrb_intern_lit(name) == CHOOSE k \in 1..Len(SymNames) : SymNames[k] = name

\* mrb_sym2name_len: "" stands for a name the generator does not look at
mrb_sym2name(sym) == IF sym \in 1..Len(SymNames) THEN SymNames[sym] ELSE ""

AttrBase == 1000

(* ------------------------------------------------------------------ *)
(* Scopes                                                              *)
(* ------------------------------------------------------------------ *)
Cur(gs) == gs.scopes[Len(gs.scopes)]
Put(gs, s) == [gs EXCEPT !.scopes[Len(gs.scopes)] = s]
Ret(gs, v) == [gs EXCEPT !.ret = v]
Ok(gs) == gs.err = ""

PoolClose(pools, ids) == [k \in 1..Len(pools) |-> IF k \in ids THEN pools[k] + 1 ELSE pools[k]]

(* ------------------------------------------------------------------ *)
(* The functions of the generator call each other recursively         *)
(* (codegen -> gen_call -> gen_values -> codegen, ...).  Each function *)
(* F is the operator F below; its body is F_impl, and Invoke, the one  *)
(* RECURSIVE operator, selects the body by the function's name.        *)
(* ------------------------------------------------------------------ *)
RECURSIVE Invoke(_, _, _, _, _, _, _, _, _)

codegen_error(gs, k, message) == Invoke("codegen_error", gs, k, message, 0, 0, 0, 0, 0)
Alloc(gs, k, message) == Invoke("Alloc", gs, k, message, 0, 0, 0, 0, 0)
codegen_palloc(gs) == Invoke("codegen_palloc", gs, 0, 0, 0, 0, 0, 0, 0)
codegen_malloc(gs) == Invoke("codegen_malloc", gs, 0, 0, 0, 0, 0, 0, 0)
codegen_realloc(gs, k, len) == Invoke("codegen_realloc", gs, k, len, 0, 0, 0, 0, 0)
new_label(gs) == Invoke("new_label", gs, 0, 0, 0, 0, 0, 0, 0)
genop(gs, i) == Invoke("genop", gs, i, 0, 0, 0, 0, 0, 0)
PcDec(gs) == Invoke("PcDec", gs, 0, 0, 0, 0, 0, 0, 0)
SetLast(gs, x) == Invoke("SetLast", gs, x, 0, 0, 0, 0, 0, 0)
peephole(gs, i, val) == Invoke("peephole", gs, i, val, 0, 0, 0, 0, 0)
genop_peep(gs, i, val) == Invoke("genop_peep", gs, i, val, 0, 0, 0, 0, 0)
HoldJump(gs) == Invoke("HoldJump", gs, 0, 0, 0, 0, 0, 0, 0)
scope_error(gs) == Invoke("scope_error", gs, 0, 0, 0, 0, 0, 0, 0)
dispatch(gs, pc) == Invoke("dispatch", gs, pc, 0, 0, 0, 0, 0, 0)
dispatch_loop(gs, pc) == Invoke("dispatch_loop", gs, pc, 0, 0, 0, 0, 0, 0)
dispatch_linked(gs, pc) == Invoke("dispatch_linked", gs, pc, 0, 0, 0, 0, 0, 0)
push_(gs) == Invoke("push_", gs, 0, 0, 0, 0, 0, 0, 0)
push_n_(gs, n) == Invoke("push_n_", gs, n, 0, 0, 0, 0, 0, 0)
pop_n(gs, n) == Invoke("pop_n", gs, n, 0, 0, 0, 0, 0, 0)
pop_(gs) == Invoke("pop_", gs, 0, 0, 0, 0, 0, 0, 0)
new_lit(gs, val) == Invoke("new_lit", gs, val, 0, 0, 0, 0, 0, 0)
new_msym(gs, sym) == Invoke("new_msym", gs, sym, 0, 0, 0, 0, 0, 0)
new_sym(gs, sym) == Invoke("new_sym", gs, sym, 0, 0, 0, 0, 0, 0)
scope_add_irep(gs, irep) == Invoke("scope_add_irep", gs, irep, 0, 0, 0, 0, 0, 0)
scope_new(gs, lv) == Invoke("scope_new", gs, lv, 0, 0, 0, 0, 0, 0)
scope_new_root(gs) == Invoke("scope_new_root", gs, 0, 0, 0, 0, 0, 0, 0)
scope_finish(gs) == Invoke("scope_finish", gs, 0, 0, 0, 0, 0, 0, 0)
loop_push(gs, t) == Invoke("loop_push", gs, t, 0, 0, 0, 0, 0, 0)
loop_pop(gs, val) == Invoke("loop_pop", gs, val, 0, 0, 0, 0, 0, 0)
SetLoop(gs, lp, field, v) == Invoke("SetLoop", gs, lp, field, v, 0, 0, 0, 0)
raise_error(gs, msg) == Invoke("raise_error", gs, msg, 0, 0, 0, 0, 0, 0)
attrsym(gs, a) == Invoke("attrsym", gs, a, 0, 0, 0, 0, 0, 0)
AryAdd(gs, splat) == Invoke("AryAdd", gs, splat, 0, 0, 0, 0, 0, 0)
gen_values_step(gs, l, i, val) == Invoke("gen_values_step", gs, l, i, val, 0, 0, 0, 0)
gen_values_range(gs, l, lo, hi, val) == Invoke("gen_values_range", gs, l, lo, hi, val, 0, 0, 0)
gen_values(gs, l, val) == Invoke("gen_values", gs, l, val, 0, 0, 0, 0, 0)
CallOp(gs, sym, idx, n, noop, sendv, blk, val) == Invoke("CallOp", gs, sym, idx, n, noop, sendv, blk, val)
gen_call(gs, tree, name, sp, val, safe) == Invoke("gen_call", gs, tree, name, sp, val, safe, 0, 0)
UpvarOf(gs, id) == Invoke("UpvarOf", gs, id, 0, 0, 0, 0, 0, 0)
gen_assignment(gs, tree, sp, val) == Invoke("gen_assignment", gs, tree, sp, val, 0, 0, 0, 0)
vm_pre(gs, l, i, rhs) == Invoke("vm_pre", gs, l, i, rhs, 0, 0, 0, 0)
vm_post(gs, l, i) == Invoke("vm_post", gs, l, i, 0, 0, 0, 0, 0)
gen_vmassignment(gs, tree, rhs, val) == Invoke("gen_vmassignment", gs, tree, rhs, val, 0, 0, 0, 0)
LastRep(gs) == Invoke("LastRep", gs, 0, 0, 0, 0, 0, 0, 0)
scope_body(gs, tree, val) == Invoke("scope_body", gs, tree, val, 0, 0, 0, 0, 0)
BodyReturn(gs, lambda) == Invoke("BodyReturn", gs, lambda, 0, 0, 0, 0, 0, 0)
opt_jumps(gs, oa) == Invoke("opt_jumps", gs, oa, 0, 0, 0, 0, 0, 0)
opt_values(gs, l, i, pos) == Invoke("opt_values", gs, l, i, pos, 0, 0, 0, 0)
lambda_body(gs, tree, blk) == Invoke("lambda_body", gs, tree, blk, 0, 0, 0, 0, 0)
gen_int(gs, tree, neg) == Invoke("gen_int", gs, tree, neg, 0, 0, 0, 0, 0)
begin_loop(gs, l, lo, hi, val) == Invoke("begin_loop", gs, l, lo, hi, val, 0, 0, 0)
rescue_classes(gs, cl, i, exc, pos2) == Invoke("rescue_classes", gs, cl, i, exc, pos2, 0, 0, 0)
rescue_clauses(gs, l, i, exc, pos1, exend, val) == Invoke("rescue_clauses", gs, l, i, exc, pos1, exend, val, 0)
case_patterns(gs, pl, i, head, pos2) == Invoke("case_patterns", gs, pl, i, head, pos2, 0, 0, 0)
case_clauses(gs, l, i, head, pos3, val) == Invoke("case_clauses", gs, l, i, head, pos3, val, 0, 0)
HashFlush(gs, len, update) == Invoke("HashFlush", gs, len, update, 0, 0, 0, 0, 0)
hash_step(gs, l, i, val) == Invoke("hash_step", gs, l, i, val, 0, 0, 0, 0)
hash_range(gs, l, lo, hi, val) == Invoke("hash_range", gs, l, lo, hi, val, 0, 0, 0)
OpAsgnOp(gs, name, idx, val) == Invoke("OpAsgnOp", gs, name, idx, val, 0, 0, 0, 0)
ArgInfo(gs) == Invoke("ArgInfo", gs, 0, 0, 0, 0, 0, 0, 0)
PopErrs(gs, n) == Invoke("PopErrs", gs, n, 0, 0, 0, 0, 0, 0)
EpopTo(gs, lp) == Invoke("EpopTo", gs, lp, 0, 0, 0, 0, 0, 0)
loop_break(gs, tree) == Invoke("loop_break", gs, tree, 0, 0, 0, 0, 0, 0)
dstr_loop(gs, l, i, val) == Invoke("dstr_loop", gs, l, i, val, 0, 0, 0, 0)
masgn_values(gs, l, i) == Invoke("masgn_values", gs, l, i, 0, 0, 0, 0, 0)
masgn_pre(gs, l, i, reg) == Invoke("masgn_pre", gs, l, i, reg, 0, 0, 0, 0)
masgn_post(gs, l, i, rhs, n, len) == Invoke("masgn_post", gs, l, i, rhs, n, len, 0, 0)
codegen(gs, tree, val) == Invoke("codegen", gs, tree, val, 0, 0, 0, 0, 0)
mrb_generate_code(gs, tree) == Invoke("mrb_generate_code", gs, tree, 0, 0, 0, 0, 0, 0)

\* codegen_error(s, message) raised on the scope at depth k of the chain
codegen_error_impl(gs, k, message) ==
  [gs EXCEPT !.pools = PoolClose(@, {gs.scopes[j].id : j \in 2..k}),
             !.err = message]

\* one fallible allocation; the failAt-th one of the compile fails
Alloc_impl(gs, k, message) ==
  IF ~Ok(gs) THEN gs
  ELSE LET g1 == [gs EXCEPT !.nalloc = @ + 1]
       IN IF g1.nalloc = g1.failAt THEN codegen_error(g1, k, message) ELSE g1

codegen_palloc_impl(gs) == Alloc(gs, Len(gs.scopes), "pool memory allocation")
codegen_malloc_impl(gs) == Alloc(gs, Len(gs.scopes), "mrb_malloc")
\* realloc to length 0 may return NULL without being an error
codegen_realloc_impl(gs, k, len) == IF len > 0 THEN Alloc(gs, k, "mrb_realloc") ELSE gs

new_label_impl(gs) ==
  IF ~Ok(gs) THEN gs
  ELSE LET s == Cur(gs) IN Ret(Put(gs, [s EXCEPT !.lastlabel = s.pc]), s.pc)

genop_impl(gs, i) ==
  IF ~Ok(gs) THEN gs
  ELSE LET s == Cur(gs)
           k == Len(gs.scopes)
           g1 == IF s.pc = s.icapa
                 THEN LET ga == codegen_realloc(Put(gs, [s EXCEPT !.icapa = @ * 2]), k, s.icapa * 2)
                      IN IF s.lines THEN codegen_realloc(ga, k, s.icapa * 2) ELSE ga
                 ELSE gs
       IN IF ~Ok(g1) THEN g1
          ELSE LET s1 == Cur(g1)
               IN Ret(Put(g1, [s1 EXCEPT !.iseq = Append(@, i), !.pc = @ + 1]), s1.pc)

\* the flag read the wrong way round
no_optimize_inverted(gs) == ~gs.no_optimize

\* s->parser->no_optimize
no_optimize(gs) == gs.no_optimize

SetOps == {"SETIV", "SETCV", "SETCONST", "SETMCNST", "SETGLOBAL"}

\* s->pc--
PcDec_impl(gs) ==
  LET s == Cur(gs) IN Put(gs, [s EXCEPT !.pc = @ - 1, !.iseq = SubSeq(@, 1, s.pc - 1)])

\* s->iseq[s->pc-1] = x
SetLast_impl(gs, x) == LET s == Cur(gs) IN Put(gs, [s EXCEPT !.iseq[s.pc] = x])


\* a fold of RETURN into the MOVE before it that also compares the returned
\* register with the MOVE's destination
ReturnFolds_returned(s, i, i0) ==
  GETARG_A(i0) >= s.nlocals /\ GETARG_A(i) = GETARG_A(i0)

\* the test of the OP_MOVE case under OP_RETURN: the MOVE i0 before the
\* RETURN i wrote a temporary
ReturnFolds(s, i, i0) == GETARG_A(i0) >= s.nlocals

\* the body of the if of genop_peep: the switch over the new instruction i
\* and the last emitted one i0
peephole_impl(gs, i, val) ==
  LET s == Cur(gs)
      i0 == s.iseq[s.pc]
      c1 == GET_OPCODE(i)
      c0 == GET_OPCODE(i0)
      tmpB == GETARG_B(i) = GETARG_A(i0) /\ GETARG_A(i0) >= s.nlocals
  IN
  CASE c1 = "MOVE" ->
         IF GETARG_A(i) = GETARG_B(i) THEN Ret(gs, 0)
         ELSE IF val # 0 THEN genop(gs, i)
         ELSE CASE c0 = "MOVE" ->
                     LET g1 == IF GETARG_A(i) = GETARG_A(i0) THEN PcDec(gs) ELSE gs
                     IN IF GETARG_B(i) = GETARG_A(i0) /\ GETARG_A(i) = GETARG_B(i0)
                        THEN Ret(g1, 0)
                        ELSE IF GETARG_B(i) = GETARG_A(i0) /\ GETARG_A(i0) >= s.nlocals
                        THEN genop_peep(PcDec(g1), MKOP_AB("MOVE", GETARG_A(i), GETARG_B(i0)), val)
                        ELSE genop(g1, i)
                [] c0 = "LOADI" ->
                     IF tmpB
                     THEN Ret(SetLast(gs, MKOP_AsBx("LOADI", GETARG_A(i), GETARG_sBx(i0))), 0)
                     ELSE genop(gs, i)
                [] c0 \in {"ARRAY", "HASH", "RANGE", "AREF", "GETUPVAR"} ->
                     IF tmpB
                     THEN Ret(SetLast(gs, MKOP_ABC(c0, GETARG_A(i), GETARG_B(i0), GETARG_C(i0))), 0)
                     ELSE genop(gs, i)
                [] c0 \in {"LOADSYM", "GETGLOBAL", "GETIV", "GETCV", "GETCONST",
                           "GETSPECIAL", "LOADL", "STRING"} ->
                     IF tmpB
                     THEN Ret(SetLast(gs, MKOP_ABx(c0, GETARG_A(i), GETARG_Bx(i0))), 0)
                     ELSE genop(gs, i)
                [] c0 = "SCLASS" ->
                     IF tmpB
                     THEN Ret(SetLast(gs, MKOP_AB(c0, GETARG_A(i), GETARG_B(i0))), 0)
                     ELSE genop(gs, i)
                [] c0 \in {"LOADNIL", "LOADSELF", "LOADT", "LOADF", "OCLASS"} ->
                     IF tmpB
                     THEN Ret(SetLast(gs, MKOP_A(c0, GETARG_A(i))), 0)
                     ELSE genop(gs, i)
                [] OTHER -> genop(gs, i)
    [] c1 \in SetOps ->
         IF val # 0 THEN genop(gs, i)
         ELSE IF c0 = "MOVE" /\ GETARG_A(i) = GETARG_A(i0)
         THEN Ret(SetLast(gs, MKOP_ABx(c1, GETARG_B(i0), GETARG_Bx(i))), 0)
         ELSE genop(gs, i)
    [] c1 = "SETUPVAR" ->
         IF val # 0 THEN genop(gs, i)
         ELSE IF c0 = "MOVE" /\ GETARG_A(i) = GETARG_A(i0)
         THEN Ret(SetLast(gs, MKOP_ABC(c1, GETARG_B(i0), GETARG_B(i), GETARG_C(i))), 0)
         ELSE genop(gs, i)
    [] c1 = "EPOP" ->
         IF c0 = "EPOP"
         THEN Ret(SetLast(gs, MKOP_A("EPOP", GETARG_A(i0) + GETARG_A(i))), 0)
         ELSE genop(gs, i)
    [] c1 = "POPERR" ->
         IF c0 = "POPERR"
         THEN Ret(SetLast(gs, MKOP_A("POPERR", GETARG_A(i0) + GETARG_A(i))), 0)
         ELSE genop(gs, i)
    [] c1 = "RETURN" ->
         CASE c0 = "RETURN" -> Ret(gs, 0)
           [] c0 = "MOVE" ->
                IF ReturnFolds(s, i, i0)
                THEN Ret(SetLast(gs, MKOP_AB("RETURN", GETARG_B(i0), OP_R_NORMAL)), 0)
                ELSE genop(gs, i)
           [] c0 \in SetOps \cup {"SETUPVAR"} ->
                LET g1 == genop_peep(PcDec(gs), i0, 0)
                    s1 == Cur(g1)
                    j0 == s1.iseq[s1.pc]
                IN genop(g1, MKOP_AB("RETURN", GETARG_A(j0), OP_R_NORMAL))
           [] OTHER -> genop(gs, i)
    [] c1 \in {"ADD", "SUB", "STRCAT"} ->
         IF c1 # "STRCAT" /\ c0 = "LOADI"
         THEN LET c == IF c1 = "SUB" THEN -GETARG_sBx(i0) ELSE GETARG_sBx(i0)
              IN IF c > 127 \/ c < -127 THEN genop(gs, i)
                 ELSE IF 0 <= c
                 THEN Ret(SetLast(gs, MKOP_ABC("ADDI", GETARG_A(i), GETARG_B(i), c)), 0)
                 ELSE Ret(SetLast(gs, MKOP_ABC("SUBI", GETARG_A(i), GETARG_B(i), -c)), 0)
         \* OP_ADD/OP_SUB have no break and fall through into case OP_STRCAT
         ELSE IF c0 = "STRING"
                 /\ LET v == s.pool[GETARG_Bx(i0) + 1]
                    IN v.tt = "STRING" /\ v.len = 0
         THEN Ret(PcDec(gs), 0)
         ELSE IF c0 = "LOADNIL" /\ GETARG_B(i) = GETARG_A(i0)
         THEN Ret(PcDec(gs), 0)
         ELSE genop(gs, i)
    [] c1 \in {"JMPIF", "JMPNOT"} ->
         IF c0 = "MOVE" /\ GETARG_A(i) = GETARG_A(i0)
         THEN Ret(SetLast(gs, MKOP_AsBx(c1, GETARG_B(i0), GETARG_sBx(i))), s.pc - 1)
         ELSE genop(gs, i)
    [] OTHER -> genop(gs, i)

\* genop_peep with the test  s->lastlabel != s->pc  left out of the guard
genop_peep_nolabel(gs, i, val) ==
  IF ~Ok(gs) THEN gs
  ELSE IF ~no_optimize(gs) /\ Cur(gs).pc > 0
  THEN peephole(gs, i, val)
  ELSE genop(gs, i)

genop_peep_impl(gs, i, val) ==
  IF ~Ok(gs) THEN gs
  ELSE IF ~no_optimize(gs) /\ Cur(gs).lastlabel # Cur(gs).pc /\ Cur(gs).pc > 0
  THEN peephole(gs, i, val)
  ELSE genop(gs, i)

\* History of the jumps awaiting dispatch: HoldJump records the instruction a
\* call of genop or genop_peep just returned the pc of as one the caller keeps
\* to hand to dispatch or dispatch_linked (a placeholder or a chain member);
\* dispatch removes it.  scope_finish stores what is left as irep.unpatched.
HoldJump_impl(gs) ==
  IF ~Ok(gs) THEN gs ELSE Put(gs, [Cur(gs) EXCEPT !.pending = @ \cup {gs.ret}])

\* scope_error: exit(EXIT_FAILURE); the process ends, nothing is released
scope_error_impl(gs) == [gs EXCEPT !.err = "exit"]

JumpOps == {"JMP", "JMPIF", "JMPNOT", "ONERR"}

\* the operand measured from the instruction after the jump
Offset_next(target, pc) == target - (pc + 1)

\* the operand of the jump at pc that transfers control to target:
\* diff = s->pc - pc in dispatch, lp->pc2 - s->pc where a backward jump is emitted
Offset(target, pc) == target - pc

\* ghost: the jump at pc has been resolved to transfer control to target
Aim(gs, pc, target) ==
  IF ~Ok(gs) THEN gs ELSE Put(gs, [Cur(gs) EXCEPT !.aimed = @ \cup {<<pc, target>>}])

dispatch_impl(gs, pc) ==
  IF ~Ok(gs) THEN gs
  ELSE LET s == Cur(gs)
           diff == Offset(s.pc, pc)
           i == s.iseq[pc + 1]
           c == GET_OPCODE(i)
           g1 == Put(gs, [s EXCEPT !.lastlabel = s.pc])
       IN IF c \notin JumpOps THEN scope_error(g1)
          ELSE LET s1 == Cur(g1)
               IN Put(g1, [s1 EXCEPT !.iseq[pc + 1] = MKOP_AsBx(c, GETARG_A(i), diff),
                                     !.pending = @ \ {pc},
                                     !.aimed = @ \cup {<<pc, s.pc>>}])

dispatch_loop_impl(gs, pc) ==
  IF ~Ok(gs) THEN gs
  ELSE LET i == Cur(gs).iseq[pc + 1]
           pos == GETARG_sBx(i)
           g1 == dispatch(gs, pc)
       IN IF pos = 0 THEN g1 ELSE dispatch_loop(g1, pos)

\* dispatch_linked that resolves the jump it is handed and does not follow
\* the chain
dispatch_linked_head(gs, pc) == IF pc = 0 THEN gs ELSE dispatch(gs, pc)

dispatch_linked_impl(gs, pc) == IF pc = 0 THEN gs ELSE dispatch_loop(gs, pc)

\* nregs_update without the comparison: nregs follows sp on every push
nregs_update_always(s) == [s EXCEPT !.nregs = s.sp]

nregs_update(s) == IF s.sp > s.nregs THEN [s EXCEPT !.nregs = s.sp] ELSE s

push__impl(gs) ==
  IF ~Ok(gs) THEN gs
  ELSE LET s == Cur(gs)
       IN IF s.sp > 511 THEN codegen_error(gs, Len(gs.scopes), "too complex expression")
          ELSE Put(gs, nregs_update([s EXCEPT !.sp = @ + 1]))

push_n__impl(gs, n) ==
  IF ~Ok(gs) THEN gs
  ELSE LET s == Cur(gs)
       IN IF s.sp + n > 511 THEN codegen_error(gs, Len(gs.scopes), "too complex expression")
          ELSE Put(gs, nregs_update([s EXCEPT !.sp = @ + n]))

pop_n_impl(gs, n) ==
  IF ~Ok(gs) THEN gs ELSE LET s == Cur(gs) IN Put(gs, [s EXCEPT !.sp = @ - n])

pop__impl(gs) == pop_n(gs, 1)
cursp(gs) == Cur(gs).sp

(* ------------------------------------------------------------------ *)
(* Literal pool and symbol tables                                      *)
(* ------------------------------------------------------------------ *)
\* mrb_value literals: [tt, len, v]; len is RSTRING_LEN for strings
StrLit(v, len) == [tt |-> "STRING", len |-> len, v |-> v]
FixLit(v) == [tt |-> "FIXNUM", len |-> 0, v |-> v]
FloatLit(v) == [tt |-> "FLOAT", len |-> 0, v |-> v]

\* the comparison with the test of the type left out
LitMatch_untyped(pv, val) == pv.v = val.v

\* new_lit: the pool entry pv is of the type of val and equal to it
LitMatch(pv, val) ==
  /\ pv.tt = val.tt
  /\ IF val.tt = "STRING" THEN pv.len = val.len /\ pv.v = val.v ELSE pv.v = val.v

new_lit_impl(gs, val) ==
  IF ~Ok(gs) THEN gs
  ELSE
  LET s == Cur(gs)
      hits == {i \in 1..Len(s.pool) : LitMatch(s.pool[i], val)}
  IN IF val.tt \notin {"STRING", "FLOAT", "FIXNUM"} THEN Ret(gs, 0)
     ELSE IF hits # {} THEN Ret(gs, (CHOOSE i \in hits : \A j \in hits : i <= j) - 1)
     ELSE LET g1 == IF Len(s.pool) = s.pcapa
                    THEN codegen_realloc(Put(gs, [s EXCEPT !.pcapa = @ * 2]),
                                         Len(gs.scopes), s.pcapa * 2)
                    ELSE gs
          IN IF ~Ok(g1) THEN g1
             ELSE LET s1 == Cur(g1)
                  IN Ret(Put(g1, [s1 EXCEPT !.pool = Append(@, val)]), Len(s1.pool))

MsymWindow == 256
SymDense == 125
SymCapaDense == 65536

\* index at which new_msym's search loop stops: a hit, the first zero slot, or len
MsymScan(syms, len, sym) ==
  LET stops == {i \in 0..(len - 1) : syms[i + 1] = sym \/ syms[i + 1] = 0}
  IN IF stops = {} THEN len ELSE CHOOSE i \in stops : \A j \in stops : i <= j

\* new_msym without the test  i == 256: the symbol is stored wherever the
\* search stopped
new_msym_unchecked(gs, sym) ==
  IF ~Ok(gs) THEN gs
  ELSE
  LET s == Cur(gs)
      len == IF Len(s.syms) > MsymWindow THEN MsymWindow ELSE Len(s.syms)
      i == MsymScan(s.syms, len, sym)
  IN IF i < len /\ s.syms[i + 1] = sym THEN Ret(gs, i)
     ELSE IF i = Len(s.syms)
     THEN Ret(Put(gs, [s EXCEPT !.syms = Append(@, sym)]), i)
     ELSE Ret(Put(gs, [s EXCEPT !.syms[i + 1] = sym]), i)

new_msym_impl(gs, sym) ==
  IF ~Ok(gs) THEN gs
  ELSE
  LET s == Cur(gs)
      len == IF Len(s.syms) > MsymWindow THEN MsymWindow ELSE Len(s.syms)
      i == MsymScan(s.syms, len, sym)
  IN IF i < len /\ s.syms[i + 1] = sym THEN Ret(gs, i)
     ELSE IF i = MsymWindow
     THEN codegen_error(gs, Len(gs.scopes), "too many symbols (max 256)")
     ELSE IF i = Len(s.syms)
     THEN Ret(Put(gs, [s EXCEPT !.syms = Append(@, sym)]), i)
     ELSE Ret(Put(gs, [s EXCEPT !.syms[i + 1] = sym]), i)

new_sym_impl(gs, sym) ==
  IF ~Ok(gs) THEN gs
  ELSE
  LET s == Cur(gs)
      hits == {i \in 1..Len(s.syms) : s.syms[i] = sym}
  IN IF hits # {} THEN Ret(gs, (CHOOSE i \in hits : \A j \in hits : i <= j) - 1)
     ELSE
     LET slen == Len(s.syms)
         g1 == IF slen > SymDense /\ slen < MsymWindow
               THEN LET ga == codegen_realloc(gs, Len(gs.scopes), SymCapaDense)
                    IN IF ~Ok(ga) THEN ga
                       ELSE Put(ga, [Cur(ga) EXCEPT
                              !.symalloc = SymCapaDense,
                              !.syms = [j \in 1..MsymWindow |->
                                          IF j <= slen THEN s.syms[j] ELSE 0]])
               ELSE gs
     IN IF ~Ok(g1) THEN g1
        ELSE LET s1 == Cur(g1)
             IN Ret(Put(g1, [s1 EXCEPT !.syms = Append(@, sym)]), Len(s1.syms))

lv_idx(s, id) ==
  LET hits == {n \in 1..Len(s.lv) : s.lv[n] = id}
  IN IF hits = {} THEN 0 ELSE CHOOSE n \in hits : \A m \in hits : n <= m

(* ------------------------------------------------------------------ *)
(* Scope life cycle                                                    *)
(* ------------------------------------------------------------------ *)
IcapaInit == 1024
PcapaInit == 32
ScapaInit == 256
RcapaInit == 8

NoIrep == [done |-> FALSE, iseq |-> <<>>, ilen |-> 0, nregs |-> 0, nlocals |-> 0,
           pool |-> <<>>, syms |-> <<>>, reps |-> <<>>, unpatched |-> {}, aimed |-> {}]

\* codegen_scope_zero, as left by scope_new for the root scope (prev == NULL)
ScopeZero(id) ==
  [id |-> id, lv |-> <<>>, sp |-> 0, pc |-> 0, lastlabel |-> 0, ainfo |-> 0,
   mscope |-> FALSE, loop |-> <<>>, ensure_level |-> 0, filename |-> FALSE,
   lines |-> FALSE, iseq |-> <<>>, hasiseq |-> FALSE, icapa |-> 0, irep |-> 0,
   pool |-> <<>>, pcapa |-> 0, syms |-> <<>>, scapa |-> 0, symalloc |-> 0,
   reps |-> <<>>, rcapa |-> 0, nlocals |-> 0, nregs |-> 0, pending |-> {}, aimed |-> {}]

\* scope_add_irep(s, irep) with s the current scope
scope_add_irep_impl(gs, irep) ==
  IF ~Ok(gs) THEN gs
  ELSE
  LET s == Cur(gs) IN
  IF s.irep = 0 THEN Put(gs, [s EXCEPT !.irep = irep])
  ELSE LET g1 == IF Len(s.reps) = s.rcapa
                 THEN codegen_realloc(Put(gs, [s EXCEPT !.rcapa = @ * 2]),
                                      Len(gs.scopes), s.rcapa * 2)
                 ELSE gs
       IN IF ~Ok(g1) THEN g1
          ELSE Put(g1, [Cur(g1) EXCEPT !.reps = Append(@, irep)])

\* scope_new(mrb, prev, lv) with prev the current scope; the new scope becomes current
scope_new_impl(gs, lv) ==
  IF ~Ok(gs) THEN gs
  ELSE
  LET prev == Cur(gs)
      id == Len(gs.pools) + 1
      irep == Len(gs.ireps) + 1
      \* mrb_pool_open, mrb_add_irep
      g1 == [gs EXCEPT !.pools = Append(@, 0), !.ireps = Append(@, NoIrep)]
      g2 == scope_add_irep(g1, irep)
      p == [ScopeZero(id) EXCEPT
              !.ainfo = -1, !.mscope = FALSE, !.irep = irep,
              !.rcapa = RcapaInit, !.icapa = IcapaInit, !.hasiseq = TRUE,
              !.pcapa = PcapaInit, !.scapa = ScapaInit, !.symalloc = ScapaInit,
              !.lv = lv, !.sp = Len(lv) + 1, !.nlocals = Len(lv) + 1,
              !.filename = prev.filename, !.lines = prev.filename]
  IN IF ~Ok(g2) THEN g2 ELSE [g2 EXCEPT !.scopes = Append(@, p)]

\* the root scope of mrb_generate_code: scope_new(mrb, 0, 0)
scope_new_root_impl(gs) ==
  [gs EXCEPT !.pools = Append(@, 0), !.scopes = Append(@, ScopeZero(Len(gs.pools) + 1))]

\* scope_finish(s) for the current scope; the parent becomes current again
scope_finish_impl(gs) ==
  IF ~Ok(gs) THEN gs
  ELSE
  LET s == Cur(gs)
      k == Len(gs.scopes)
      g1 == IF s.hasiseq
            THEN LET ga == codegen_realloc(gs, k, s.pc)
                 IN IF s.lines THEN codegen_realloc(ga, k, s.pc) ELSE ga
            ELSE gs
      g2 == codegen_realloc(g1, k, Len(s.pool))
      g3 == codegen_realloc(g2, k, Len(s.syms))
      g4 == codegen_realloc(g3, k, Len(s.reps))
      g5 == IF s.filename THEN codegen_malloc(g4) ELSE g4
  IN IF ~Ok(g5) THEN g5
     ELSE [g5 EXCEPT
             !.ireps[s.irep] = [done |-> TRUE, iseq |-> s.iseq, ilen |-> s.pc,
                                nregs |-> s.nregs, nlocals |-> s.nlocals,
                                pool |-> s.pool, syms |-> s.syms, reps |-> s.reps,
                                unpatched |-> s.pending, aimed |-> s.aimed],
             !.pools = PoolClose(@, {s.id}),
             !.scopes = SubSeq(@, 1, k - 1)]

(* ------------------------------------------------------------------ *)
(* Loop stack: s->loop is the last element; a struct loopinfo* is the   *)
(* position of the frame in the stack.                                  *)
(* ------------------------------------------------------------------ *)
loop_push_impl(gs, t) ==
  LET g1 == codegen_palloc(gs) IN
  IF ~Ok(g1) THEN g1
  ELSE LET s == Cur(g1)
           p == [type |-> t, pc1 |-> 0, pc2 |-> 0, pc3 |-> 0,
                 ensure_level |-> s.ensure_level, acc |-> s.sp]
       IN Ret(Put(g1, [s EXCEPT !.loop = Append(@, p)]), Len(s.loop) + 1)

loop_pop_impl(gs, val) ==
  IF ~Ok(gs) THEN gs
  ELSE
  LET g1 == IF val # 0 THEN genop(gs, MKOP_A("LOADNIL", cursp(gs))) ELSE gs
      g2 == IF Ok(g1) THEN dispatch_linked(g1, Cur(g1).loop[Len(Cur(g1).loop)].pc3) ELSE g1
      g3 == IF Ok(g2)
            THEN Put(g2, [Cur(g2) EXCEPT !.loop = SubSeq(@, 1, Len(@) - 1)])
            ELSE g2
  IN IF val # 0 THEN push_(g3) ELSE g3

\* lp->field = v for the frame at position lp
SetLoop_impl(gs, lp, field, v) ==
  IF ~Ok(gs) THEN gs ELSE Put(gs, [Cur(gs) EXCEPT !.loop[lp][field] = v])

(* ------------------------------------------------------------------ *)
(* AST.  A node is [nt, k, l, sym, n, d]: the node type, its fixed      *)
(* children, its list children, a symbol, a number and a data list      *)
(* (the local-variable symbols of a scope, the digits of an integer).   *)
(* NULL is the null pointer.                                            *)
(* ------------------------------------------------------------------ *)
NOVAL == 0
VAL == 1

Nd(nt, k, l, sym, n, d) == [nt |-> nt, k |-> k, l |-> l, sym |-> sym, n |-> n, d |-> d]
NULL == Nd("NULL", <<>>, <<>>, 0, 0, <<>>)


\* raise_error as a fatal error: the message thrown with codegen_error instead
\* of compiled into the code
raise_error_fatal(gs, msg) ==
  IF ~Ok(gs) THEN gs ELSE codegen_error(gs, Len(gs.scopes), msg)

raise_error_impl(gs, msg) ==
  LET g1 == new_lit(gs, StrLit(msg, 1))
  IN genop(g1, MKOP_ABx("ERR", 1, g1.ret))

\* mrb_intern(name + "=")
attrsym_impl(gs, a) == Ret(codegen_palloc(gs), AttrBase + a)

nosplat(l) == \A i \in 1..Len(l) : l[i].nt # "SPLAT"

AryAdd_impl(gs, splat) ==
  IF splat THEN genop(gs, MKOP_AB("ARYCAT", cursp(gs), cursp(gs) + 1))
           ELSE genop(gs, MKOP_AB("ARYPUSH", cursp(gs), cursp(gs) + 1))

\* the test with the limit one too high: 128 elements still on the direct path
SplatMode_128(n, is_splat) == n >= 128 \/ is_splat

\* if (n >= 127 || is_splat): the element starts or continues an array
SplatMode(n, is_splat) == n >= 127 \/ is_splat

\* One pass of the while loops of gen_values, for the element l[i].  gs.ret
\* carries n; it is -1 once the array path is taken (the inner loops).
gen_values_step_impl(gs, l, i, val) ==
  IF ~Ok(gs) THEN gs
  ELSE
  LET t == l[i]
      n == gs.ret
      is_splat == t.nt = "SPLAT"
  IN IF n < 0
     THEN \* the inner while loops
          IF val # 0
          THEN LET g1 == codegen(push_(gs), t, VAL)
                   g2 == pop_(pop_(g1))
               IN IF ~Ok(g1) THEN g1 ELSE Ret(AryAdd(g2, is_splat), -1)
          ELSE Ret(codegen(gs, t, NOVAL), -1)
     ELSE IF SplatMode(n, is_splat)
     THEN IF val # 0
          THEN IF is_splat /\ n = 0 /\ t.k[1].nt = "ARRAY"
               THEN Ret(pop_(codegen(gs, t.k[1], VAL)), -1)
               ELSE LET a == pop_n(gs, n)
                        b == push_(genop(a, MKOP_ABC("ARRAY", cursp(a), cursp(a), n)))
                        b2 == codegen(b, t, VAL)
                        c == pop_(pop_(b2))
                    IN IF ~Ok(b2) THEN b2 ELSE Ret(AryAdd(c, is_splat), -1)
          \* codegen(s, t->car->cdr, NOVAL): the operand of a splat; for any
          \* other node the cdr is no node the switch knows (default: nothing)
          ELSE Ret(IF is_splat THEN codegen(gs, t.k[1], NOVAL) ELSE gs, -1)
     ELSE Ret(codegen(gs, t, val), n + 1)

\* the passes for l[lo..hi] in order, the range split in halves
gen_values_range_impl(gs, l, lo, hi, val) ==
  IF lo > hi THEN gs
  ELSE IF lo = hi THEN gen_values_step(gs, l, lo, val)
  ELSE LET mid == (lo + hi) \div 2
           left == gen_values_range(gs, l, lo, mid, val)
       IN IF ~Ok(left) THEN left ELSE gen_values_range(left, l, mid + 1, hi, val)

gen_values_impl(gs, l, val) ==
  IF ~Ok(gs) THEN gs ELSE gen_values_range(Ret(gs, 0), l, 1, Len(l), val)

\* the instruction gen_call selects for the method name
CallOp_impl(gs, sym, idx, n, noop, sendv, blk, val) ==
  LET name == mrb_sym2name(sym)
      a == cursp(gs)
      n2 == IF sendv = 1 THEN CALL_MAXARGS ELSE n
  IN CASE noop = 0 /\ name = "+" -> genop_peep(gs, MKOP_ABC("ADD", a, idx, n), val)
       [] noop = 0 /\ name = "-" -> genop_peep(gs, MKOP_ABC("SUB", a, idx, n), val)
       [] noop = 0 /\ name = "*" -> genop(gs, MKOP_ABC("MUL", a, idx, n))
       [] noop = 0 /\ name = "/" -> genop(gs, MKOP_ABC("DIV", a, idx, n))
       [] noop = 0 /\ name = "<" -> genop(gs, MKOP_ABC("LT", a, idx, n))
       [] noop = 0 /\ name = "<=" -> genop(gs, MKOP_ABC("LE", a, idx, n))
       [] noop = 0 /\ name = ">" -> genop(gs, MKOP_ABC("GT", a, idx, n))
       [] noop = 0 /\ name = ">=" -> genop(gs, MKOP_ABC("GE", a, idx, n))
       [] noop = 0 /\ name = "==" -> genop(gs, MKOP_ABC("EQ", a, idx, n))
       [] OTHER -> IF blk > 0 THEN genop(gs, MKOP_ABC("SEND", a, idx, n2))
                   ELSE genop(gs, MKOP_ABC("SENDB", a, idx, n2))

\* gen_call(s, tree, name, sp, val, safe); tree.n = 1 when the call has an
\* argument node (tree->cdr->cdr->car), whose car is tree.l and cdr tree.k[2]
gen_call_impl(gs, tree, name, sp, val, safe) ==
  LET sym == IF name # 0 THEN name ELSE tree.sym
      hasblk == tree.n = 1 /\ tree.k[2].nt # "NULL"
      \* if (safe) dispatch(s, skip);  if (val) push();
      Done(g9, skip) ==
        LET Disp(a) == IF safe # 0 THEN dispatch(a, skip) ELSE a
            Push(a) == IF val # 0 THEN push_(a) ELSE a
        IN Push(Disp(g9))
      \* push(); pop(); pop_n(n+1); and the instruction of the call
      Send(g7, idx, n, noop, sendv, blk, skip) ==
        IF ~Ok(g7) THEN g7
        ELSE Done(CallOp(pop_n(pop_(push_(g7)), n + 1), sym, idx, n, noop, sendv, blk, val),
                  skip)
      \* the block argument: tree->cdr->cdr->cdr
      Block(g6, idx, n0, n, sendv, skip) ==
        Send(IF hasblk THEN pop_(codegen(g6, tree.k[2], VAL)) ELSE g6,
             idx, n, IF n0 < 0 \/ hasblk THEN 1 ELSE 0, sendv,
             IF hasblk THEN 0 ELSE cursp(g6), skip)
      \* if (sp): the value of an assignment is one more argument
      Extra(g5, idx, n0, n1, sendv, skip) ==
        LET Pack(a) == push_(genop(a, MKOP_AB("ARYPUSH", cursp(a), sp)))
            Move(a) == push_(genop(a, MKOP_AB("MOVE", cursp(a), sp)))
        IN Block(IF sp = 0 THEN g5 ELSE IF sendv = 1 THEN Pack(pop_(g5)) ELSE Move(g5),
                 idx, n0, IF sp # 0 /\ sendv = 0 THEN n1 + 1 ELSE n1, sendv, skip)
      \* n = gen_values(...); if (n < 0) { n = noop = sendv = 1; push(); }
      Counted(g4, idx, n0, skip) ==
        Extra(IF n0 < 0 THEN push_(g4) ELSE g4, idx, n0, IF n0 < 0 THEN 1 ELSE n0,
              IF n0 < 0 THEN 1 ELSE 0, skip)
      Args(g3, skip) ==
        LET Values(g4) == IF ~Ok(g4) THEN g4 ELSE Counted(g4, g3.ret, g4.ret, skip)
        IN IF tree.n = 1 THEN Values(gen_values(g3, tree.l, VAL))
           ELSE Counted(g3, g3.ret, 0, skip)
      \* idx = new_msym(s, sym)
      Named(g2) == Args(new_msym(g2, sym), g2.ret)
      \* if (safe): the receiver is compared with nil and the call skipped
      Recv(g1) ==
        IF ~Ok(g1) THEN g1
        ELSE
        LET recv == cursp(g1) - 1
            Nil(a) == push_(genop(a, MKOP_A("LOADNIL", cursp(a))))
            Move(a) == pop_(genop(a, MKOP_AB("MOVE", cursp(a), recv)))
            Eq(a) == genop(a, MKOP_ABC("EQ", cursp(a), a.ret, 1))
            Jmp(a) == HoldJump(genop(a, MKOP_AsBx("JMPIF", cursp(a), 0)))
        IN Named(IF safe = 0 THEN g1
                 ELSE Jmp(Eq(new_msym(Move(Nil(g1)), mrb_intern_lit("==")))))
  IN Recv(codegen(gs, tree.k[1], VAL))

\* the enclosing scope that declares id, as (index in lv, levels up); <<0, 0>> if none
UpvarOf_impl(gs, id) ==
  LET k == Len(gs.scopes)
      hits == {j \in 1..(k - 1) : lv_idx(gs.scopes[j], id) > 0}
  IN IF hits = {} THEN <<0, 0>>
     ELSE LET j == CHOOSE x \in hits : \A y \in hits : y <= x
          IN <<lv_idx(gs.scopes[j], id), (k - 1) - j>>


gen_assignment_impl(gs, tree, sp, val) ==
  IF ~Ok(gs) THEN gs
  ELSE
  LET type == tree.nt
      g1 ==
        CASE type = "GVAR" ->
               LET a == new_sym(gs, tree.sym) IN genop_peep(a, MKOP_ABx("SETGLOBAL", sp, a.ret), val)
          [] type = "LVAR" ->
               LET idx == lv_idx(Cur(gs), tree.sym) IN
               IF idx > 0
               THEN IF idx # sp THEN genop_peep(gs, MKOP_AB("MOVE", idx, sp), val) ELSE gs
               ELSE LET up == UpvarOf(gs, tree.sym)
                    IN IF up[1] > 0
                       THEN genop_peep(gs, MKOP_ABC("SETUPVAR", sp, up[1], up[2]), val)
                       ELSE gs
          [] type = "IVAR" ->
               LET a == new_sym(gs, tree.sym) IN genop_peep(a, MKOP_ABx("SETIV", sp, a.ret), val)
          [] type = "CVAR" ->
               LET a == new_sym(gs, tree.sym) IN genop_peep(a, MKOP_ABx("SETCV", sp, a.ret), val)
          [] type = "CONST" ->
               LET a == new_sym(gs, tree.sym) IN genop_peep(a, MKOP_ABx("SETCONST", sp, a.ret), val)
          [] type = "COLON2" ->
               LET a == new_sym(gs, tree.sym)
                   b == push_(genop_peep(a, MKOP_AB("MOVE", cursp(a), sp), NOVAL))
                   b2 == codegen(b, tree.k[1], VAL)
                   c == pop_n(b2, 2)
               IN IF ~Ok(b2) THEN b2
                  ELSE genop_peep(c, MKOP_ABx("SETMCNST", cursp(c), a.ret), val)
          [] type = "CALL" ->
               LET a == attrsym(push_(gs), tree.sym)
                   b2 == gen_call(a, tree, a.ret, sp, NOVAL, 0)
                   b == pop_(b2)
               IN IF ~Ok(b2) THEN b2
                  ELSE IF val # 0 THEN genop_peep(b, MKOP_AB("MOVE", cursp(b), sp), val) ELSE b
          [] type = "MASGN" -> gen_vmassignment(gs, tree.k[1], sp, val)
          [] OTHER -> gs
  IN IF ~Ok(g1) THEN g1 ELSE IF val # 0 THEN push_(g1) ELSE g1

\* the pre loop of gen_vmassignment
vm_pre_impl(gs, l, i, rhs) ==
  IF ~Ok(gs) \/ i > Len(l) THEN gs
  ELSE LET a == genop(gs, MKOP_ABC("AREF", cursp(gs), rhs, i - 1))
       IN vm_pre(gen_assignment(a, l[i], cursp(a), NOVAL), l, i + 1, rhs)

\* the post loop of gen_vmassignment
vm_post_impl(gs, l, i) ==
  IF ~Ok(gs) \/ i > Len(l) THEN gs
  ELSE vm_post(gen_assignment(gs, l[i], cursp(gs) + i, NOVAL), l, i + 1)

\* gen_vmassignment(s, tree, rhs, val); tree is an MLHS node: l the pre list,
\* n = 1 when tree->cdr is present, k[1] the rest target, k[2] the POST node
\* (NULL when t->cdr is absent) whose l is the post list
gen_vmassignment_impl(gs, tree, rhs, val) ==
  LET g1 == vm_pre(gs, tree.l, 1, rhs)
      n == Len(tree.l)
  IN IF tree.n = 0 THEN g1
     ELSE LET post == IF tree.k[2].nt # "NULL" THEN Len(tree.k[2].l) ELSE 0
              g2 == IF val # 0 THEN genop(g1, MKOP_AB("MOVE", cursp(g1), rhs)) ELSE pop_(g1)
              g3 == pop_n(push_n_(g2, post), post)
              g4 == genop(g3, MKOP_ABC("APOST", cursp(g3), n, post))
              g5 == IF tree.k[1].nt # "NULL"
                    THEN gen_assignment(g4, tree.k[1], cursp(g4), NOVAL) ELSE g4
              g6 == IF tree.k[2].nt # "NULL" THEN vm_post(g5, tree.k[2].l, 1) ELSE g5
          IN push_(g6)

\* the value returned by scope_body/lambda_body: s->irep->rlen - 1 of the parent
LastRep_impl(gs) ==
  LET p == Cur(gs)
  IN IF p.irep = 0 THEN 0
     ELSE IF p.hasiseq THEN Len(p.reps) - 1
     ELSE Len(gs.ireps[p.irep].reps) - 1

\* scope_body(s, tree, val); tree is a SCOPE node: d the locals, k[1] the body
scope_body_impl(gs, tree, val) ==
  IF ~Ok(gs) THEN gs
  ELSE
  LET parent == Cur(gs)
      g1 == scope_new(gs, tree.d)
      g2 == codegen(g1, tree.k[1], VAL)
      g3 == IF ~Ok(g2) THEN g2
            ELSE IF ~parent.hasiseq THEN genop(g2, MKOP_A("STOP", 0))
            ELSE IF val = 0 THEN genop(g2, MKOP_AB("RETURN", 0, OP_R_NORMAL))
            ELSE IF Cur(g2).nregs = 0
            THEN genop(genop(g2, MKOP_A("LOADNIL", 0)), MKOP_AB("RETURN", 0, OP_R_NORMAL))
            ELSE genop_peep(g2, MKOP_AB("RETURN", Cur(g2).sp - 1, OP_R_NORMAL), NOVAL)
      g4 == scope_finish(g3)
  IN CASE ~Ok(g2) -> g2
       [] ~Ok(g4) -> g4
       [] OTHER -> Ret(g4, LastRep(g4))

\* the closing RETURN left out whenever the code already ends with a normal
\* RETURN, without the test  s->pc == s->lastlabel
BodyReturn_nolabel(gs, lambda) ==
  IF ~Ok(gs) THEN gs
  ELSE
  LET s == Cur(gs) IN
  IF s.pc > 0
  THEN LET c == s.iseq[s.pc]
       IN IF GET_OPCODE(c) # "RETURN" \/ GETARG_B(c) # OP_R_NORMAL
          THEN IF lambda /\ s.nregs = 0
               THEN genop(genop(gs, MKOP_A("LOADNIL", 0)), MKOP_AB("RETURN", 0, OP_R_NORMAL))
               ELSE genop_peep(gs, MKOP_AB("RETURN", cursp(gs), OP_R_NORMAL), NOVAL)
          ELSE gs
  ELSE gs

\* the closing RETURN of lambda_body and for_body
BodyReturn_impl(gs, lambda) ==
  IF ~Ok(gs) THEN gs
  ELSE
  LET s == Cur(gs) IN
  IF s.pc > 0
  THEN LET c == s.iseq[s.pc]
       IN IF GET_OPCODE(c) # "RETURN" \/ GETARG_B(c) # OP_R_NORMAL \/ s.pc = s.lastlabel
          THEN IF lambda /\ s.nregs = 0
               THEN genop(genop(gs, MKOP_A("LOADNIL", 0)), MKOP_AB("RETURN", 0, OP_R_NORMAL))
               ELSE genop_peep(gs, MKOP_AB("RETURN", cursp(gs), OP_R_NORMAL), NOVAL)
          ELSE gs
  ELSE gs

\* the jump table of the optional arguments: oa times new_label and JMP
opt_jumps_impl(gs, oa) ==
  IF oa = 0 THEN gs
  ELSE opt_jumps(HoldJump(genop(new_label(gs), MKOP_sBx("JMP", 0))), oa - 1)

\* the defaults of the optional arguments; l[i] is an OPT node: sym, k[1] the default
opt_values_impl(gs, l, i, pos) ==
  IF ~Ok(gs) \/ i > Len(l) THEN gs
  ELSE LET b == codegen(dispatch(gs, pos + i - 1), l[i].k[1], VAL)
           a == pop_(b)
           idx == lv_idx(Cur(a), l[i].sym)
       IN IF ~Ok(b) THEN b ELSE opt_values(genop_peep(a, MKOP_AB("MOVE", idx, cursp(a)), NOVAL), l, i + 1, pos)

\* lambda_body(s, tree, blk); tree is a LAMBDA/BLOCK/DEF body node: d the
\* locals, k[1] the body, k[2] the ARGS node (NULL when tree->car is absent):
\* n = ma, l = the optional arguments, d = <<ra, pa, ba>>
lambda_body_impl(gs, tree, blk) ==
  IF ~Ok(gs) THEN gs
  ELSE
  LET args == tree.k[2]
      \* return generate_code_end(s)
      End(g8) == IF ~Ok(g8) THEN g8 ELSE Ret(g8, LastRep(g8))
      Pop(g6) == IF blk # 0 THEN loop_pop(g6, NOVAL) ELSE g6
      \* codegen(s, tree->cdr->car, VAL); pop(); the return; scope_finish(s)
      Coded(g5) ==
        IF ~Ok(g5) THEN g5 ELSE End(scope_finish(Pop(BodyReturn(pop_(g5), TRUE))))
      Body(g4) == IF ~Ok(g4) THEN g4 ELSE Coded(codegen(g4, tree.k[1], VAL))
      \* the arguments: OP_ENTER, the jump table and the defaults of the
      \* optional arguments
      Args(g3) ==
        LET ma == args.n
            oa == Len(args.l)
            ra == args.d[1]
            pa == args.d[2]
            ba == args.d[3]
            aspec == (ma % 32) * 262144 + (oa % 32) * 8192 + (ra % 2) * 4096
                     + (pa % 32) * 128 + (ba % 2)
            ainfo == ((ma + oa) % 64) * 64 + (ra % 2) * 32 + (pa % 32)
            Jmp(c) == IF oa > 0 THEN HoldJump(genop(c, MKOP_sBx("JMP", 0))) ELSE c
            Last(e, pos) == IF oa > 0 THEN dispatch(e, pos + oa) ELSE e
            Opts(lb) == Last(opt_values(Jmp(opt_jumps(lb, oa)), args.l, 1, lb.ret), lb.ret)
        IN Opts(new_label(genop(Put(g3, [Cur(g3) EXCEPT !.ainfo = ainfo]),
                                MKOP_Ax("ENTER", aspec))))
      Entered(g3) == Body(IF args.nt = "NULL" \/ ~Ok(g3) THEN g3 ELSE Args(g3))
      \* if (blk) { lp = loop_push(s, LOOP_BLOCK); lp->pc1 = new_label(s); }
      Labelled(a, lb) == SetLoop(lb, a.ret, "pc1", lb.ret)
      Block(a) == Labelled(a, new_label(a))
      Scoped(g2) == Entered(IF blk # 0 THEN Block(loop_push(g2, "LOOP_BLOCK")) ELSE g2)
      New(g1) == Scoped(IF Ok(g1) THEN Put(g1, [Cur(g1) EXCEPT !.mscope = (blk = 0)]) ELSE g1)
  IN New(scope_new(gs, tree.d))

(* ------------------------------------------------------------------ *)
(* Integer literals.  The text is the list of its characters: a digit   *)
(* value 0..35, PlusSign for '+', or a value >= base for any character  *)
(* that is no digit of the base.                                        *)
(* ------------------------------------------------------------------ *)
MRB_INT_MAX == 2147483647
MRB_INT_MIN == -2147483647 - 1
PlusSign == -1

\* C integer division (truncation toward zero) for a positive divisor
CDiv(a, b) == IF a >= 0 \/ a % b = 0 THEN a \div b ELSE (a \div b) + 1

StripPlus(p) == IF Len(p) > 0 /\ p[1] = PlusSign THEN Tail(p) ELSE p

\* the loop of readint_mrb_int: [ok, overflow, result]
RECURSIVE readint_loop(_, _, _, _, _)
readint_loop(p, i, base, neg, result) ==
  IF i > Len(p) THEN [malformed |-> FALSE, overflow |-> FALSE, result |-> result]
  ELSE LET n == p[i] IN
       IF n < 0 \/ n >= base THEN [malformed |-> TRUE, overflow |-> FALSE, result |-> 0]
       ELSE IF neg
       THEN IF CDiv(MRB_INT_MIN + n, base) > result
            THEN [malformed |-> FALSE, overflow |-> TRUE, result |-> 0]
            ELSE readint_loop(p, i + 1, base, neg, result * base - n)
       ELSE IF CDiv(MRB_INT_MAX - n, base) < result
            THEN [malformed |-> FALSE, overflow |-> TRUE, result |-> 0]
            ELSE readint_loop(p, i + 1, base, neg, result * base + n)

\* the digits read as a non-negative number and the sign applied afterwards
readint_mrb_int_magnitude(p, base, neg) ==
  LET r == readint_loop(StripPlus(p), 1, base, FALSE, 0)
  IN IF neg THEN [r EXCEPT !.result = 0 - @] ELSE r

readint_mrb_int(p, base, neg) == readint_loop(StripPlus(p), 1, base, neg, 0)

\* readint_float: malformed when a character is no digit of the base; the
\* double is kept as the text it was read from
readint_float(p, base, neg) ==
  [malformed |-> \E i \in 1..Len(StripPlus(p)) : StripPlus(p)[i] < 0 \/ StripPlus(p)[i] >= base,
   f |-> <<neg, base, StripPlus(p)>>]

\* the range test with the upper limit included
FitsLoadI_upper(i) == i <= MAXARG_sBx /\ i > -MAXARG_sBx

\* the range test with the lower limit included
FitsLoadI_lower(i) == i < MAXARG_sBx /\ i >= -MAXARG_sBx

\* if (i < MAXARG_sBx && i > -MAXARG_sBx): the value goes into OP_LOADI
FitsLoadI(i) == i < MAXARG_sBx /\ i > -MAXARG_sBx

\* NODE_INT and NODE_NEGATE of NODE_INT (val already tested); tree.d the text, tree.n the base
gen_int_impl(gs, tree, neg) ==
  IF ~Ok(gs) THEN gs
  ELSE
  LET r == readint_mrb_int(tree.d, tree.n, neg)
      k == Len(gs.scopes)
  IN IF r.malformed THEN codegen_error(gs, k, "malformed readint input")
     ELSE IF r.overflow
     THEN LET f == readint_float(tree.d, tree.n, neg)
          IN IF f.malformed THEN codegen_error(gs, k, "malformed readint input")
             ELSE LET a == new_lit(gs, FloatLit(f.f))
                  IN push_(genop(a, MKOP_ABx("LOADL", cursp(a), a.ret)))
     ELSE LET i == r.result
          IN IF FitsLoadI(i)
             THEN push_(genop(gs, MKOP_AsBx("LOADI", cursp(gs), i)))
             ELSE LET a == new_lit(gs, FixLit(i))
                  IN push_(genop(a, MKOP_ABx("LOADL", cursp(a), a.ret)))

(* ------------------------------------------------------------------ *)
(* codegen, one operator per case of the switch                        *)
(* ------------------------------------------------------------------ *)
\* NODE_BEGIN: the while loop over the statements l[lo..hi] in order, the
\* range split in halves; every statement but the last of l is NOVAL
begin_loop_impl(gs, l, lo, hi, val) ==
  IF ~Ok(gs) \/ lo > hi THEN gs
  ELSE IF lo = hi THEN codegen(gs, l[lo], IF lo < Len(l) THEN NOVAL ELSE val)
  ELSE LET mid == (lo + hi) \div 2
           left == begin_loop(gs, l, lo, mid, val)
       IN IF ~Ok(left) THEN left ELSE begin_loop(left, l, mid + 1, hi, val)

cg_BEGIN(gs, tree, val) ==
  LET g1 == IF val # 0 /\ Len(tree.l) = 0
            THEN push_(genop(gs, MKOP_A("LOADNIL", cursp(gs)))) ELSE gs
  IN begin_loop(g1, tree.l, 1, Len(tree.l), val)

\* NODE_RESCUE: the do-while over the exception classes of one clause;
\* returns pos2 (the JMPIF chain)
rescue_classes_impl(gs, cl, i, exc, pos2) ==
  IF ~Ok(gs) THEN gs
  ELSE
  LET has == Len(cl) > 0
      Std(a) == push_(genop(a, MKOP_ABx("GETCONST", cursp(a), a.ret)))
      Move(a) == pop_(genop(a, MKOP_AB("MOVE", cursp(a), exc)))
      Send(a) == genop(a, MKOP_ABC("SEND", cursp(a), a.ret, 1))
      Jmp(a) == HoldJump(genop(a, MKOP_AsBx("JMPIF", cursp(a), pos2)))
      More(g4) ==
        IF has /\ i < Len(cl) THEN rescue_classes(g4, cl, i + 1, exc, g4.ret) ELSE g4
      Class(g1) ==
        IF ~Ok(g1) THEN g1
        ELSE More(Jmp(Send(new_msym(
               Move(g1),
               mrb_intern_lit(IF has /\ cl[i].nt = "SPLAT" THEN "__case_eqq" ELSE "===")))))
  IN Class(IF has THEN codegen(gs, cl[i], VAL)
           ELSE Std(new_msym(gs, mrb_intern_lit("StandardError"))))

\* NODE_RESCUE: the while loop over the clauses; a RESBODY node has l the
\* exception classes, k[1] the variable, k[2] the body
rescue_clauses_impl(gs, l, i, exc, pos1, exend, val) ==
  IF ~Ok(gs) \/ i > Len(l) THEN [g |-> gs, pos1 |-> pos1, exend |-> exend]
  ELSE
  LET n3 == l[i]
      \* tmp = genop(JMP exend); exend = tmp; n2 = n2->cdr; push();
      Loop(g7, p1) == rescue_clauses(push_(g7), l, i + 1, exc, p1, g7.ret, val)
      Body(a) == IF val # 0 THEN pop_(a) ELSE a
      Stmts(g5) == IF n3.k[2].nt # "NULL" THEN Body(codegen(g5, n3.k[2], val)) ELSE g5
      Var(g4) ==
        IF n3.k[1].nt # "NULL" THEN gen_assignment(g4, n3.k[1], exc, NOVAL) ELSE g4
      Coded(g6, p1) ==
        IF ~Ok(g6) THEN [g |-> g6, pos1 |-> p1, exend |-> exend]
        ELSE Loop(HoldJump(genop(g6, MKOP_sBx("JMP", exend))), p1)
      Clause(g4, p1) == Coded(Stmts(Var(g4)), p1)
      \* pos1 = genop(JMP 0); dispatch_linked(s, pos2); pop();
      Matched(g3, pos2) == Clause(pop_(dispatch_linked(g3, pos2)), g3.ret)
      Classes(g2) ==
        IF ~Ok(g2) THEN [g |-> g2, pos1 |-> pos1, exend |-> exend]
        ELSE Matched(HoldJump(genop(g2, MKOP_sBx("JMP", 0))), g2.ret)
  IN Classes(rescue_classes(IF pos1 # 0 THEN dispatch(gs, pos1) ELSE gs, n3.l, 1, exc, 0))

\* NODE_RESCUE: k[1] the body, l the clauses, k[2] the else part
cg_RESCUE(gs, tree, val) ==
  IF tree.k[1].nt = "NULL" THEN gs
  ELSE
  LET \* dispatch_linked(s, exend); loop_pop(s, NOVAL);
      Finish(g13) == IF ~Ok(g13) THEN g13 ELSE loop_pop(g13, NOVAL)
      Else(g11) ==
        IF tree.k[2].nt # "NULL" THEN codegen(g11, tree.k[2], val)
        ELSE IF val # 0 THEN push_(g11) ELSE g11
      \* if (pos1) { dispatch(s, pos1); genop(RAISE exc); }
      Raise(r, exc) ==
        IF r.pos1 # 0 THEN genop(dispatch(r.g, r.pos1), MKOP_A("RAISE", exc)) ELSE r.g
      Clauses(r, exc, noexc) ==
        IF ~Ok(r.g) THEN r.g
        ELSE
        Finish(dispatch_linked(
                 Else(genop(dispatch(pop_(Raise(r, exc)), noexc), MKOP_A("POPERR", 1))),
                 r.exend))
      Handler(g7, exc, noexc) ==
        Clauses(IF Len(tree.l) > 0
                THEN rescue_clauses(push_(genop(g7, MKOP_A("RESCUE", exc))),
                                    tree.l, 1, exc, 0, 0, val)
                ELSE [g |-> g7, pos1 |-> 0, exend |-> 0],
                exc, noexc)
      Caught(g7, noexc) == Handler(g7, cursp(g7), noexc)
      \* noexc = genop(JMP 0); dispatch(s, onerr);
      Jumped(g6, onerr) == Caught(dispatch(g6, onerr), g6.ret)
      Coded(g4, lp, onerr) ==
        IF ~Ok(g4) THEN g4
        ELSE Jumped(HoldJump(genop(SetLoop(pop_(g4), lp, "type", "LOOP_RESCUE"),
                                   MKOP_Bx("JMP", 0))),
                    onerr)
      Body(g3, lp, onerr) == Coded(codegen(g3, tree.k[1], VAL), lp, onerr)
      \* lp = loop_push(s, LOOP_BEGIN); lp->pc1 = onerr;
      Pushed(g2, onerr) == Body(SetLoop(g2, g2.ret, "pc1", onerr), g2.ret, onerr)
      Begun(g1) == Pushed(loop_push(g1, "LOOP_BEGIN"), g1.ret)
  IN Begun(HoldJump(genop(gs, MKOP_Bx("ONERR", 0))))

\* NODE_ENSURE: k[1] the body, k[2] the SCOPE node of the ensure clause
cg_ENSURE(gs, tree, val) ==
  LET epush == Cur(gs).pc
      g1 == genop(gs, MKOP_Bx("EPUSH", 0))
      g2 == IF Ok(g1) THEN Put(g1, [Cur(g1) EXCEPT !.ensure_level = @ + 1]) ELSE g1
      g3 == codegen(g2, tree.k[1], val)
      g4 == scope_body(g3, tree.k[2], NOVAL)
  IN IF ~Ok(g3) THEN g3
     ELSE IF ~Ok(g4) THEN g4
     ELSE genop_peep(Put(g4, [Cur(g4) EXCEPT !.iseq[epush + 1] = MKOP_Bx("EPUSH", g4.ret),
                                             !.ensure_level = @ - 1]),
                     MKOP_A("EPOP", 1), NOVAL)

\* NODE_LAMBDA and NODE_BLOCK
cg_LAMBDA(gs, tree, flag) ==
  LET g1 == lambda_body(gs, tree, 1)
  IN IF ~Ok(g1) THEN g1 ELSE push_(genop(g1, MKOP_Abc("LAMBDA", cursp(g1), g1.ret, flag)))

\* NODE_IF: k = <<condition, then, else>>
cg_IF(gs, tree, val) ==
  LET c == tree.k[1]
      e == tree.k[3]
  IN IF c.nt \in {"TRUE", "INT", "STR"} THEN codegen(gs, tree.k[2], val)
     ELSE IF c.nt \in {"FALSE", "NIL"} THEN codegen(gs, e, val)
     ELSE
     LET g0 == codegen(gs, c, VAL)
         g1 == pop_(g0)
         g2 == HoldJump(genop_peep(g1, MKOP_AsBx("JMPNOT", cursp(g1), 0), NOVAL))
         pos1 == g2.ret
         g3 == codegen(g2, tree.k[2], val)
     IN IF ~Ok(g0) THEN g0
        ELSE IF ~Ok(g3) THEN g3
        ELSE IF e.nt # "NULL"
        THEN LET a == HoldJump(genop(IF val # 0 THEN pop_(g3) ELSE g3, MKOP_sBx("JMP", 0)))
                 b == codegen(dispatch(a, pos1), e, val)
             IN IF ~Ok(b) THEN b ELSE dispatch(b, a.ret)
        ELSE IF val # 0
        THEN LET a == HoldJump(genop(pop_(g3), MKOP_sBx("JMP", 0)))
                 b == dispatch(a, pos1)
                 c2 == genop(b, MKOP_A("LOADNIL", cursp(b)))
             IN push_(dispatch(c2, a.ret))
        ELSE dispatch(g3, pos1)

\* NODE_AND (jop = JMPNOT) and NODE_OR (jop = JMPIF): k = <<left, right>>
cg_ANDOR(gs, tree, val, jop) ==
  LET g0 == codegen(gs, tree.k[1], VAL)
      g1 == pop_(g0)
      g2 == HoldJump(genop(g1, MKOP_AsBx(jop, cursp(g1), 0)))
      g3 == codegen(g2, tree.k[2], val)
  IN IF ~Ok(g0) THEN g0
     ELSE IF ~Ok(g3) THEN g3
     ELSE dispatch(g3, g2.ret)

\* NODE_WHILE (jop = JMPIF) and NODE_UNTIL (jop = JMPNOT): k = <<condition, body>>
cg_WHILE(gs, tree, val, jop) ==
  LET g1 == loop_push(gs, "LOOP_NORMAL")
      lp == g1.ret
      g2 == HoldJump(genop(g1, MKOP_sBx("JMP", 0)))
      g3 == SetLoop(g2, lp, "pc1", g2.ret)
      g4 == new_label(g3)
      g5 == SetLoop(g4, lp, "pc2", g4.ret)
      g6 == codegen(g5, tree.k[2], NOVAL)
  IN IF ~Ok(g6) THEN g6
     ELSE
     LET g7 == codegen(dispatch(g6, Cur(g6).loop[lp].pc1), tree.k[1], VAL)
         g8 == pop_(g7)
     IN IF ~Ok(g7) THEN g7
        ELSE LET back == Cur(g8).loop[lp].pc2
                 g9 == genop(g8, MKOP_AsBx(jop, cursp(g8), Offset(back, Cur(g8).pc)))
             IN loop_pop(Aim(g9, Cur(g8).pc, back), val)

\* NODE_CASE: the inner loop over the patterns of one when clause; returns pos2
case_patterns_impl(gs, pl, i, head, pos2) ==
  IF ~Ok(gs) THEN gs
  ELSE IF i > Len(pl) THEN Ret(gs, pos2)
  ELSE
  LET g1 == codegen(gs, pl[i], VAL)
      g2 == IF ~Ok(g1) THEN g1
            ELSE IF head # 0
            THEN LET a == pop_(genop(g1, MKOP_AB("MOVE", cursp(g1), head)))
                     b == new_msym(a, mrb_intern_lit(IF pl[i].nt = "SPLAT"
                                                     THEN "__case_eqq" ELSE "==="))
                 IN genop(b, MKOP_ABC("SEND", cursp(b), b.ret, 1))
            ELSE pop_(g1)
      g3 == HoldJump(genop(g2, MKOP_AsBx("JMPIF", cursp(g2), pos2)))
  IN IF ~Ok(g1) THEN g1 ELSE case_patterns(g3, pl, i + 1, head, g3.ret)

\* NODE_CASE: the loop over the clauses; a WHEN node has l the patterns
\* (empty for else) and k[1] the body
case_clauses_impl(gs, l, i, head, pos3, val) ==
  IF ~Ok(gs) \/ i > Len(l) THEN [g |-> gs, pos3 |-> pos3]
  ELSE
  LET w == l[i]
      g1 == case_patterns(gs, w.l, 1, head, 0)
      pos2 == g1.ret
      g2 == IF Len(w.l) > 0 THEN HoldJump(genop(g1, MKOP_sBx("JMP", 0))) ELSE g1
      pos1 == IF Len(w.l) > 0 THEN g2.ret ELSE 0
      g3 == IF Len(w.l) > 0 THEN dispatch_linked(g2, pos2) ELSE g2
      g4 == codegen(g3, w.k[1], val)
      g5 == HoldJump(genop(IF val # 0 THEN pop_(g4) ELSE g4, MKOP_sBx("JMP", pos3)))
      g6 == IF pos1 # 0 THEN dispatch(g5, pos1) ELSE g5
  IN IF ~Ok(g1) THEN [g |-> g1, pos3 |-> pos3]
     ELSE IF ~Ok(g4) THEN [g |-> g4, pos3 |-> pos3]
     ELSE case_clauses(g6, l, i + 1, head, g5.ret, val)

\* NODE_CASE: k[1] the head (NULL if absent), l the clauses
cg_CASE(gs, tree, val) ==
  LET hashead == tree.k[1].nt # "NULL"
      head == IF hashead THEN cursp(gs) ELSE 0
      g1 == IF hashead THEN codegen(gs, tree.k[1], VAL) ELSE gs
      r == case_clauses(g1, tree.l, 1, head, 0, val)
      g2 == r.g
  IN IF ~Ok(g1) THEN g1
     ELSE IF ~Ok(g2) THEN g2
     ELSE IF val # 0
     THEN LET pos == cursp(g2)
              a == genop(g2, MKOP_A("LOADNIL", cursp(g2)))
              b == IF r.pos3 # 0 THEN dispatch_linked(a, r.pos3) ELSE a
              c == IF head # 0 THEN pop_(b) ELSE b
          IN push_(genop(c, MKOP_AB("MOVE", cursp(c), pos)))
     ELSE LET b == IF r.pos3 # 0 THEN dispatch_linked(g2, r.pos3) ELSE g2
          IN IF head # 0 THEN pop_(b) ELSE b

\* NODE_DOT2 (excl = 0) and NODE_DOT3 (excl = 1): k = <<first, last>>
cg_DOT(gs, tree, val, excl) ==
  LET g0 == codegen(gs, tree.k[1], val)
      g1 == codegen(g0, tree.k[2], val)
  IN IF ~Ok(g0) THEN g0
     ELSE IF ~Ok(g1) THEN g1
     ELSE IF val # 0
     THEN LET a == pop_(pop_(g1))
          IN push_(genop(a, MKOP_ABC("RANGE", cursp(a), cursp(a), excl)))
     ELSE g1

\* NODE_COLON2: k[1] the base, sym the name
cg_COLON2(gs, tree, val) ==
  LET g1 == new_sym(gs, tree.sym)
      g0 == codegen(g1, tree.k[1], VAL)
      g2 == pop_(g0)
      g3 == genop(g2, MKOP_ABx("GETMCNST", cursp(g2), g1.ret))
  IN IF ~Ok(g0) THEN g0 ELSE IF val # 0 THEN push_(g3) ELSE g3

\* NODE_ARRAY: l the elements
cg_ARRAY(gs, tree, val) ==
  LET g1 == gen_values(gs, tree.l, val)
      n == g1.ret
  IN IF ~Ok(g1) THEN g1
     ELSE IF n >= 0
     THEN IF val # 0
          THEN LET a == pop_n(g1, n)
               IN push_(genop(a, MKOP_ABC("ARRAY", cursp(a), cursp(a), n)))
          ELSE g1
     ELSE IF val # 0 THEN push_(g1) ELSE g1

\* NODE_HASH: emit OP_HASH for len pairs, merged by __update after the first
HashFlush_impl(gs, len, update) ==
  LET a == pop_n(gs, len * 2)
      b == genop(a, MKOP_ABC("HASH", cursp(a), cursp(a), len))
      c == IF update
            THEN LET d == pop_(b)
                     e == new_msym(d, mrb_intern_lit("__update"))
                 IN genop(e, MKOP_ABC("SEND", cursp(e), e.ret, 1))
            ELSE b
  IN push_(c)

\* the test with the limit one too high: 126 pairs still in one OP_HASH
HashFull_127(val, len) == val # 0 /\ len = 127

\* if (val && len == 126): the pairs lowered so far are packed into a hash
HashFull(val, len) == val # 0 /\ len = 126

\* NODE_HASH: one pass of the while loop, for the PAIR node l[i] with
\* k = <<key, value>>; gs.ret carries <<len, update>>
hash_step_impl(gs, l, i, val) ==
  IF ~Ok(gs) THEN gs
  ELSE LET len == gs.ret[1]
           update == gs.ret[2]
           g0 == codegen(gs, l[i].k[1], val)
           g1 == codegen(g0, l[i].k[2], val)
       IN IF ~Ok(g0) THEN g0
          ELSE IF ~Ok(g1) THEN g1
          ELSE IF HashFull(val, len + 1)
          THEN Ret(HashFlush(g1, len + 1, update), <<0, TRUE>>)
          ELSE Ret(g1, <<len + 1, update>>)

\* the passes for l[lo..hi] in order, the range split in halves
hash_range_impl(gs, l, lo, hi, val) ==
  IF lo > hi THEN gs
  ELSE IF lo = hi THEN hash_step(gs, l, lo, val)
  ELSE LET mid == (lo + hi) \div 2
           left == hash_range(gs, l, lo, mid, val)
       IN IF ~Ok(left) THEN left ELSE hash_range(left, l, mid + 1, hi, val)

\* NODE_HASH: l the PAIR nodes
cg_HASH(gs, tree, val) ==
  LET g1 == hash_range(Ret(gs, <<0, FALSE>>), tree.l, 1, Len(tree.l), val)
  IN IF ~Ok(g1) THEN g1
     ELSE IF val # 0 THEN HashFlush(g1, g1.ret[1], g1.ret[2]) ELSE g1

\* NODE_ASGN: k = <<lhs, rhs>>
cg_ASGN(gs, tree, val) ==
  LET g0 == codegen(gs, tree.k[2], VAL)
      g1 == pop_(g0)
  IN IF ~Ok(g0) THEN g0 ELSE gen_assignment(g1, tree.k[1], cursp(g1), val)

\* the arithmetic instruction NODE_OP_ASGN selects for the operator
OpAsgnOp_impl(gs, name, idx, val) ==
  LET a == cursp(gs)
  IN CASE name = "+" -> genop_peep(gs, MKOP_ABC("ADD", a, idx, 1), val)
       [] name = "-" -> genop_peep(gs, MKOP_ABC("SUB", a, idx, 1), val)
       [] name = "*" -> genop(gs, MKOP_ABC("MUL", a, idx, 1))
       [] name = "/" -> genop(gs, MKOP_ABC("DIV", a, idx, 1))
       [] name = "<" -> genop(gs, MKOP_ABC("LT", a, idx, 1))
       [] name = "<=" -> genop(gs, MKOP_ABC("LE", a, idx, 1))
       [] name = ">" -> genop(gs, MKOP_ABC("GT", a, idx, 1))
       [] name = ">=" -> genop(gs, MKOP_ABC("GE", a, idx, 1))
       [] OTHER -> genop(gs, MKOP_ABC("SEND", a, idx, 1))

\* NODE_OP_ASGN: k = <<lhs, rhs>>, sym the operator
cg_OP_ASGN(gs, tree, val) ==
  LET name == mrb_sym2name(tree.sym)
      lhs == tree.k[1]
      vsp == cursp(gs)
      guarded == name = "||" /\ lhs.nt \in {"CONST", "CVAR"}
      iscall == ~guarded /\ lhs.nt = "CALL"
      callargs == IF iscall THEN (IF lhs.n = 1 THEN CALL_MAXARGS ELSE 1) ELSE -1
      \* lhs ||= rhs for a constant or class variable: the read of lhs is
      \* wrapped in a rescue; a is the state after  onerr = genop(ONERR)
      Guarded(a) ==
        LET onerr == a.ret
            Rescue(e, exc) ==
              dispatch(genop(genop(dispatch(e, onerr), MKOP_A("RESCUE", exc)),
                             MKOP_A("LOADF", exc)),
                       e.ret)
            Coded(e, lp, exc) ==
              IF ~Ok(e) THEN e
              ELSE Rescue(HoldJump(genop(genop(SetLoop(e, lp, "type", "LOOP_RESCUE"),
                                               MKOP_A("POPERR", 1)),
                                         MKOP_Bx("JMP", 0))),
                          exc)
            Body(c, lp) == IF ~Ok(c) THEN c ELSE Coded(codegen(c, lhs, VAL), lp, cursp(c))
            Pushed(lb) == Body(SetLoop(lb, lb.ret, "pc1", onerr), lb.ret)
        IN Pushed(loop_push(a, "LOOP_BEGIN"))
      \* lhs is a call: receiver and arguments are evaluated once and copied;
      \* b is the state after  idx = new_msym(...)
      CallLhs(b) ==
        LET idx == b.ret
            Ary(x, n) == genop(x, MKOP_ABC("ARRAY", cursp(x), cursp(x), n))
            Packed(v) == IF v.ret >= 0 THEN Ary(pop_n(v, v.ret), v.ret) ELSE v
            Recv(w) == genop(w, MKOP_AB("MOVE", cursp(w) + 1, cursp(w) - 1))
            Args(x) == push_(genop(x, MKOP_AB("MOVE", cursp(x) + 2, cursp(x))))
            SendV(y) == genop(y, MKOP_ABC("SEND", cursp(y), idx, CALL_MAXARGS))
            Recv0(x) == genop(x, MKOP_AB("MOVE", cursp(x), cursp(x) - 1))
            Send0(x) == genop(x, MKOP_ABC("SEND", cursp(x), idx, 0))
            Values(v) == IF ~Ok(v) THEN v ELSE push_(SendV(Args(Recv(Packed(v)))))
        IN IF ~Ok(b) THEN b
           ELSE IF lhs.n = 1 THEN Values(gen_values(b, lhs.l, VAL))
           ELSE push_(Send0(Recv0(b)))
      \* lhs ||= rhs, lhs &&= rhs; a is the state after pop()
      Logical(a) ==
        LET jop == IF name = "||" THEN "JMPIF" ELSE "JMPNOT"
            Assign(c, pos) == dispatch(gen_assignment(c, lhs, cursp(c), val), pos)
            Coded(c, pos) == IF ~Ok(c) THEN c ELSE Assign(pop_(c), pos)
            Rhs(j) == IF ~Ok(j) THEN j ELSE Coded(codegen(j, tree.k[2], VAL), j.ret)
        IN Rhs(HoldJump(IF val # 0 THEN genop(a, MKOP_AsBx(jop, cursp(a), 0))
                        ELSE genop_peep(a, MKOP_AsBx(jop, cursp(a), 0), NOVAL)))
      \* the assignment back through the attribute writer of a call lhs
      CallStore(d) ==
        LET Move(x) == IF val # 0 THEN genop(x, MKOP_AB("MOVE", vsp, cursp(x))) ELSE x
            Push(x) == genop(x, MKOP_AB("ARYPUSH", cursp(x) - 1, cursp(x)))
            Named(f) == new_msym(f, f.ret)
            Send(h) == genop(h, MKOP_ABC("SEND", cursp(h), h.ret, callargs))
        IN Send(Named(attrsym(pop_(IF callargs = CALL_MAXARGS THEN pop_(Move(Push(d)))
                                   ELSE Move(d)),
                              lhs.sym)))
      Store(d) ==
        IF ~Ok(d) THEN d
        ELSE IF callargs < 0 THEN gen_assignment(d, lhs, cursp(d), val)
        ELSE CallStore(d)
      Op(c) == Store(OpAsgnOp(c, name, c.ret, val))
      Coded(c) == IF ~Ok(c) THEN c ELSE Op(new_msym(pop_(pop_(pop_(push_(c)))), tree.sym))
      Arith(g1) == Coded(codegen(g1, tree.k[2], VAL))
      Rest(g1) ==
        IF ~Ok(g1) THEN g1
        ELSE IF name \in {"||", "&&"} THEN Logical(pop_(g1))
        ELSE Arith(g1)
      Recv(g0) == IF ~Ok(g0) THEN g0 ELSE CallLhs(new_msym(g0, lhs.sym))
  IN Rest(IF guarded THEN Guarded(HoldJump(genop(gs, MKOP_Bx("ONERR", 0))))
          ELSE IF iscall
          THEN Recv(codegen(IF val # 0 THEN push_(gs) ELSE gs, lhs.k[1], VAL))
          ELSE codegen(gs, lhs, VAL))

\* NODE_SUPER: n = 1 when tree is present, l the arguments, k[1] the block
cg_SUPER(gs, tree, val) ==
  LET g1 == push_(gs)
      hasargs == tree.n = 1 /\ Len(tree.l) > 0
      g2 == IF hasargs THEN gen_values(g1, tree.l, VAL) ELSE g1
      n0 == IF hasargs THEN g2.ret ELSE 0
      sendv == n0 < 0
      g3 == IF sendv THEN push_(g2) ELSE g2
      n == IF sendv THEN 1 ELSE n0
      g4 == IF tree.n = 1 /\ tree.k[1].nt # "NULL"
            THEN pop_(codegen(g3, tree.k[1], VAL))
            ELSE pop_(push_(genop(g3, MKOP_A("LOADNIL", cursp(g3)))))
      g5 == pop_n(g4, n + 1)
      g6 == genop(g5, MKOP_ABC("SUPER", cursp(g5), 0, IF sendv THEN CALL_MAXARGS ELSE n))
  IN IF ~Ok(g2) THEN g2
     ELSE IF ~Ok(g4) THEN g4
     ELSE IF val # 0 THEN push_(g6) ELSE g6

\* the walk of NODE_ZSUPER and NODE_YIELD to the method scope: (ainfo<<4)|(lv & 0xf)
ArgInfo_impl(gs) ==
  LET k == Len(gs.scopes)
      ms == {j \in 1..k : gs.scopes[j].mscope}
      top == IF ms = {} THEN 0 ELSE CHOOSE j \in ms : \A i \in ms : i <= j
      lv == k - top
      ainfo == IF top = 0 THEN 0 ELSE gs.scopes[top].ainfo
  IN ainfo * 16 + (lv % 16)

\* NODE_ZSUPER: n = 1 when tree is present, k[1] the block
cg_ZSUPER(gs, tree, val) ==
  LET g1 == push_(gs)
      g2 == genop(g1, MKOP_ABx("ARGARY", cursp(g1), ArgInfo(g1)))
      g3 == pop_(push_(push_(g2)))
      g4 == IF tree.n = 1 /\ tree.k[1].nt # "NULL"
            THEN pop_(codegen(g3, tree.k[1], VAL)) ELSE g3
      g5 == pop_(pop_(g4))
      g6 == genop(g5, MKOP_ABC("SUPER", cursp(g5), 0, CALL_MAXARGS))
  IN IF val # 0 THEN push_(g6) ELSE g6

\* NODE_RETURN: k[1] the value
cg_RETURN(gs, tree, val) ==
  LET g1 == IF tree.k[1].nt # "NULL" THEN pop_(codegen(gs, tree.k[1], VAL))
            ELSE genop(gs, MKOP_A("LOADNIL", cursp(gs)))
      g2 == IF ~Ok(g1) THEN g1
            ELSE IF Len(Cur(g1).loop) > 0
            THEN genop(g1, MKOP_AB("RETURN", cursp(g1), OP_R_RETURN))
            ELSE genop_peep(g1, MKOP_AB("RETURN", cursp(g1), OP_R_NORMAL), NOVAL)
  IN IF val # 0 THEN push_(g2) ELSE g2

\* NODE_YIELD: l the arguments
cg_YIELD(gs, tree, val) ==
  LET g1 == push_(genop(gs, MKOP_ABx("BLKPUSH", cursp(gs), ArgInfo(gs))))
      hasargs == Len(tree.l) > 0
      g2 == IF hasargs THEN gen_values(g1, tree.l, VAL) ELSE g1
      n0 == IF hasargs THEN g2.ret ELSE 0
      sendv == n0 < 0
      g3 == IF sendv THEN push_(g2) ELSE g2
      n == IF sendv THEN 1 ELSE n0
      g4 == pop_n(g3, n + 1)
      g5 == new_msym(g4, mrb_intern_lit("call"))
      g6 == genop(g5, MKOP_ABC("SEND", cursp(g5), g5.ret, IF sendv THEN CALL_MAXARGS ELSE n))
  IN IF ~Ok(g2) THEN g2 ELSE IF val # 0 THEN push_(g6) ELSE g6

\* the frame reached from frame i by following prev while the type is in ts (0: none)
RECURSIVE SkipFrames(_, _, _)
SkipFrames(loops, i, ts) ==
  IF i > 0 /\ loops[i].type \in ts THEN SkipFrames(loops, i - 1, ts) ELSE i

\* n times genop_peep(s, MKOP_A(OP_POPERR, 1), NOVAL)
PopErrs_impl(gs, n) ==
  IF n = 0 THEN gs ELSE PopErrs(genop_peep(gs, MKOP_A("POPERR", 1), NOVAL), n - 1)

\* the OP_EPOP of break, next, redo and retry against frame lp
EpopTo_impl(gs, lp) ==
  LET s == Cur(gs)
  IN IF s.ensure_level > s.loop[lp].ensure_level
     THEN genop_peep(gs, MKOP_A("EPOP", s.ensure_level - s.loop[lp].ensure_level), NOVAL)
     ELSE gs

loop_break_impl(gs, tree) ==
  IF ~Ok(gs) THEN gs
  ELSE IF Len(Cur(gs).loop) = 0
  THEN raise_error(codegen(gs, tree, NOVAL), "unexpected break")
  ELSE
  LET g1 == IF tree.nt # "NULL" THEN pop_(codegen(gs, tree, VAL)) ELSE gs
  IN IF ~Ok(g1) THEN g1
     ELSE
     LET loops == Cur(g1).loop
         top == Len(loops)
         afterBegin == SkipFrames(loops, top, {"LOOP_BEGIN"})
         loop == SkipFrames(loops, afterBegin, {"LOOP_RESCUE"})
         g2 == PopErrs(g1, top - afterBegin)
     IN IF loop = 0 THEN raise_error(g2, "unexpected break")
        ELSE IF loops[loop].type = "LOOP_NORMAL"
        THEN LET a == EpopTo(g2, top)
                 b == IF tree.nt # "NULL"
                      THEN genop_peep(a, MKOP_AB("MOVE", loops[loop].acc, cursp(a)), NOVAL)
                      ELSE a
                 c == HoldJump(genop(b, MKOP_sBx("JMP", loops[loop].pc3)))
             IN SetLoop(c, loop, "pc3", c.ret)
        ELSE genop(g2, MKOP_AB("RETURN", cursp(g2), OP_R_BREAK))

\* NODE_BREAK: k[1] the value
cg_BREAK(gs, tree, val) ==
  LET g1 == loop_break(gs, tree.k[1]) IN IF val # 0 THEN push_(g1) ELSE g1

\* NODE_NEXT: k[1] the value
cg_NEXT(gs, tree, val) ==
  LET s == Cur(gs)
      top == Len(s.loop)
      g1 == IF top = 0 THEN raise_error(gs, "unexpected next")
            ELSE IF s.loop[top].type = "LOOP_NORMAL"
            THEN LET a == codegen(EpopTo(gs, top), tree.k[1], NOVAL)
                 IN IF ~Ok(a) THEN a
                    ELSE LET back == Cur(a).loop[Len(Cur(a).loop)].pc1
                         IN Aim(genop(a, MKOP_sBx("JMP", Offset(back, Cur(a).pc))), Cur(a).pc, back)
            ELSE LET a == IF tree.k[1].nt # "NULL" THEN pop_(codegen(gs, tree.k[1], VAL))
                          ELSE genop(gs, MKOP_A("LOADNIL", cursp(gs)))
                 IN genop_peep(a, MKOP_AB("RETURN", cursp(a), OP_R_NORMAL), NOVAL)
  IN IF val # 0 THEN push_(g1) ELSE g1

\* NODE_REDO
cg_REDO(gs, tree, val) ==
  LET s == Cur(gs)
      top == Len(s.loop)
  IN IF top = 0 THEN raise_error(gs, "unexpected redo")
     ELSE LET a == EpopTo(gs, top)
          IN IF ~Ok(a) THEN a
             ELSE Aim(genop(a, MKOP_sBx("JMP", Offset(s.loop[top].pc2, Cur(a).pc))),
                      Cur(a).pc, s.loop[top].pc2)

\* NODE_RETRY
cg_RETRY(gs, tree, val) ==
  LET s == Cur(gs)
      top == Len(s.loop)
      lp == SkipFrames(s.loop, top, {"LOOP_BEGIN", "LOOP_NORMAL", "LOOP_BLOCK", "LOOP_FOR"})
      n == Cardinality({i \in (lp + 1)..top : s.loop[i].type = "LOOP_BEGIN"})
  IN IF top = 0 \/ lp = 0 THEN raise_error(gs, "unexpected retry")
     ELSE LET a == EpopTo(PopErrs(gs, n), lp)
          IN IF ~Ok(a) THEN a
             ELSE Aim(genop(a, MKOP_sBx("JMP", Offset(s.loop[lp].pc1, Cur(a).pc))),
                      Cur(a).pc, s.loop[lp].pc1)

\* NODE_LVAR
cg_LVAR(gs, tree, val) ==
  IF val = 0 THEN gs
  ELSE LET idx == lv_idx(Cur(gs), tree.sym)
           up == UpvarOf(gs, tree.sym)
           g1 == IF idx > 0 THEN genop_peep(gs, MKOP_AB("MOVE", cursp(gs), idx), NOVAL)
                 ELSE IF up[1] > 0 THEN genop(gs, MKOP_ABC("GETUPVAR", cursp(gs), up[1], up[2]))
                 ELSE gs
       IN push_(g1)

\* NODE_GVAR, NODE_IVAR, NODE_CVAR with their load instruction
cg_VAR(gs, tree, val, get) ==
  IF val = 0 THEN gs
  ELSE LET a == new_sym(gs, tree.sym)
       IN push_(genop(a, MKOP_ABx(get, cursp(a), a.ret)))

\* NODE_CONST
cg_CONST(gs, tree, val) ==
  LET a == new_sym(gs, tree.sym)
      b == genop(a, MKOP_ABx("GETCONST", cursp(a), a.ret))
  IN IF val # 0 THEN push_(b) ELSE b

\* NODE_NEGATE: k[1] the operand
cg_NEGATE(gs, tree, val) ==
  IF tree.k[1].nt = "INT" THEN gen_int(gs, tree.k[1], TRUE)
  ELSE LET a == new_msym(gs, mrb_intern_lit("-"))
           b == codegen(push_(genop(a, MKOP_ABx("LOADI", cursp(a), 0))), tree.k[1], VAL)
           c == pop_(pop_(b))
       IN IF ~Ok(b) THEN b ELSE genop(c, MKOP_ABC("SUB", cursp(c), a.ret, 2))

\* NODE_STR: sym the text, n its length
cg_STR(gs, tree, val) ==
  IF val = 0 THEN gs
  ELSE LET a == new_lit(gs, StrLit(tree.sym, tree.n))
       IN push_(genop(a, MKOP_ABx("STRING", cursp(a), a.ret)))

\* NODE_DSTR: l the parts
dstr_loop_impl(gs, l, i, val) ==
  IF ~Ok(gs) \/ i > Len(l) THEN gs
  ELSE IF val # 0
  THEN LET b == codegen(gs, l[i], VAL)
           a == pop_(pop_(b))
       IN IF ~Ok(b) THEN b
          ELSE dstr_loop(push_(genop_peep(a, MKOP_AB("STRCAT", cursp(a), cursp(a) + 1), VAL)),
                         l, i + 1, val)
  ELSE dstr_loop(IF l[i].nt # "STR" THEN codegen(gs, l[i], NOVAL) ELSE gs, l, i + 1, val)

cg_DSTR(gs, tree, val) ==
  IF val # 0
  THEN IF Len(tree.l) = 0 THEN gs ELSE dstr_loop(codegen(gs, tree.l[1], VAL), tree.l, 2, val)
  ELSE dstr_loop(gs, tree.l, 1, val)

\* NODE_SELF, NODE_NIL, NODE_TRUE, NODE_FALSE with their load instruction
cg_LOAD(gs, val, load) ==
  IF val = 0 THEN gs ELSE push_(genop(gs, MKOP_A(load, cursp(gs))))

\* NODE_DEF: sym the method name, k[1] the body as lambda_body takes it
cg_DEF(gs, tree, val) ==
  LET a == new_msym(gs, tree.sym)
      sym == a.ret
      b == lambda_body(a, tree.k[1], 0)
      c == push_(genop(b, MKOP_A("TCLASS", cursp(b))))
      d == genop(c, MKOP_Abc("LAMBDA", cursp(c), b.ret, OP_L_METHOD))
      e == pop_(pop_(push_(d)))
      f == genop(e, MKOP_AB("METHOD", cursp(e), sym))
  IN IF ~Ok(b) THEN b
     ELSE IF ~Ok(f) THEN f
     ELSE IF val # 0 THEN push_(genop(f, MKOP_ABx("LOADSYM", cursp(f), sym))) ELSE f

\* NODE_MASGN, fixed rhs: codegen of the elements
masgn_values_impl(gs, l, i) ==
  IF ~Ok(gs) \/ i > Len(l) THEN gs ELSE masgn_values(codegen(gs, l[i], VAL), l, i + 1)

\* NODE_MASGN, fixed rhs: gen_assignment of targets l[i..] to registers from reg on
masgn_pre_impl(gs, l, i, reg) ==
  IF ~Ok(gs) \/ i > Len(l) THEN gs
  ELSE masgn_pre(gen_assignment(gs, l[i], reg, NOVAL), l, i + 1, reg + 1)

\* NODE_MASGN, fixed rhs: while (n<len) over the post targets; running off
\* the end of the list dereferences a null pointer
masgn_post_impl(gs, l, i, rhs, n, len) ==
  IF ~Ok(gs) \/ n >= len THEN gs
  ELSE IF i > Len(l) THEN [gs EXCEPT !.err = "null dereference"]
  ELSE masgn_post(gen_assignment(gs, l[i], rhs + n, NOVAL), l, i + 1, rhs, n + 1, len)

\* NODE_MASGN: k = <<MLHS, rhs>>
cg_MASGN(gs, tree, val) ==
  LET mlhs == tree.k[1]
      t == tree.k[2]
      rhs == cursp(gs)
  IN IF t.nt = "ARRAY" /\ nosplat(t.l)
     THEN LET len == Len(t.l)
              g1 == masgn_values(gs, t.l, 1)
              g2 == masgn_pre(g1, mlhs.l, 1, rhs)
              n == Len(mlhs.l)
              post == IF mlhs.n = 1 /\ mlhs.k[2].nt # "NULL" THEN Len(mlhs.k[2].l) ELSE 0
              hasrest == mlhs.n = 1 /\ mlhs.k[1].nt # "NULL"
              rn == IF len < post + n THEN 0 ELSE len - post - n
              g3 == IF hasrest
                    THEN LET a == genop(g2, MKOP_ABC("ARRAY", cursp(g2), rhs + n, rn))
                         IN gen_assignment(a, mlhs.k[1], cursp(a), NOVAL)
                    ELSE g2
              n2 == IF hasrest THEN n + rn ELSE n
              g4 == IF post > 0 THEN masgn_post(g3, mlhs.k[2].l, 1, rhs, n2, len) ELSE g3
              g5 == pop_n(g4, len)
          IN IF val # 0 THEN push_(genop(g5, MKOP_ABC("ARRAY", rhs, rhs, len))) ELSE g5
     ELSE LET g0 == codegen(gs, t, VAL)
              g1 == gen_vmassignment(g0, mlhs, rhs, val)
          IN IF ~Ok(g0) THEN g0 ELSE IF val = 0 THEN pop_(g1) ELSE g1

codegen_impl(gs, tree, val) ==
  IF ~Ok(gs) THEN gs
  ELSE IF tree.nt = "NULL"
  THEN IF val # 0 THEN push_(genop(gs, MKOP_A("LOADNIL", cursp(gs)))) ELSE gs
  ELSE
  LET nt == tree.nt IN
  CASE nt = "BEGIN" -> cg_BEGIN(gs, tree, val)
    [] nt = "RESCUE" -> cg_RESCUE(gs, tree, val)
    [] nt = "ENSURE" -> cg_ENSURE(gs, tree, val)
    [] nt = "LAMBDA" -> cg_LAMBDA(gs, tree, OP_L_LAMBDA)
    [] nt = "BLOCK" -> cg_LAMBDA(gs, tree, OP_L_BLOCK)
    [] nt = "IF" -> cg_IF(gs, tree, val)
    [] nt = "AND" -> cg_ANDOR(gs, tree, val, "JMPNOT")
    [] nt = "OR" -> cg_ANDOR(gs, tree, val, "JMPIF")
    [] nt = "WHILE" -> cg_WHILE(gs, tree, val, "JMPIF")
    [] nt = "UNTIL" -> cg_WHILE(gs, tree, val, "JMPNOT")
    [] nt = "CASE" -> cg_CASE(gs, tree, val)
    [] nt = "SCOPE" -> scope_body(gs, tree, NOVAL)
    [] nt \in {"FCALL", "CALL"} -> gen_call(gs, tree, 0, 0, val, 0)
    [] nt = "SCALL" -> gen_call(gs, tree, 0, 0, val, 1)
    [] nt = "DOT2" -> cg_DOT(gs, tree, val, 0)
    [] nt = "DOT3" -> cg_DOT(gs, tree, val, 1)
    [] nt = "COLON2" -> cg_COLON2(gs, tree, val)
    [] nt = "ARRAY" -> cg_ARRAY(gs, tree, val)
    [] nt = "HASH" -> cg_HASH(gs, tree, val)
    [] nt = "SPLAT" -> codegen(gs, tree.k[1], VAL)
    [] nt = "ASGN" -> cg_ASGN(gs, tree, val)
    [] nt = "MASGN" -> cg_MASGN(gs, tree, val)
    [] nt = "OP_ASGN" -> cg_OP_ASGN(gs, tree, val)
    [] nt = "SUPER" -> cg_SUPER(gs, tree, val)
    [] nt = "ZSUPER" -> cg_ZSUPER(gs, tree, val)
    [] nt = "RETURN" -> cg_RETURN(gs, tree, val)
    [] nt = "YIELD" -> cg_YIELD(gs, tree, val)
    [] nt = "BREAK" -> cg_BREAK(gs, tree, val)
    [] nt = "NEXT" -> cg_NEXT(gs, tree, val)
    [] nt = "REDO" -> cg_REDO(gs, tree, val)
    [] nt = "RETRY" -> cg_RETRY(gs, tree, val)
    [] nt = "LVAR" -> cg_LVAR(gs, tree, val)
    [] nt = "GVAR" -> cg_VAR(gs, tree, val, "GETGLOBAL")
    [] nt = "IVAR" -> cg_VAR(gs, tree, val, "GETIV")
    [] nt = "CVAR" -> cg_VAR(gs, tree, val, "GETCV")
    [] nt = "CONST" -> cg_CONST(gs, tree, val)
    [] nt = "INT" -> IF val # 0 THEN gen_int(gs, tree, FALSE) ELSE gs
    [] nt = "NEGATE" -> cg_NEGATE(gs, tree, val)
    [] nt = "STR" -> cg_STR(gs, tree, val)
    [] nt = "DSTR" -> cg_DSTR(gs, tree, val)
    [] nt = "SELF" -> cg_LOAD(gs, val, "LOADSELF")
    [] nt = "NIL" -> cg_LOAD(gs, val, "LOADNIL")
    [] nt = "TRUE" -> cg_LOAD(gs, val, "LOADT")
    [] nt = "FALSE" -> cg_LOAD(gs, val, "LOADF")
    [] nt = "DEF" -> cg_DEF(gs, tree, val)
    [] OTHER -> gs

\* the state a compile starts from: nothing allocated; the failAt-th fallible
\* allocation will fail (0: none), no_optimize as the parser context sets it
Fresh(failAt, noopt) ==
  [scopes |-> <<>>, ireps |-> <<>>, pools |-> <<>>, err |-> "", ret |-> 0, result |-> "",
   nalloc |-> 0, failAt |-> failAt, no_optimize |-> noopt]

\* mrb_generate_code(mrb, p): result is "proc" (the RProc of scope->irep) or
\* "NULL"; "exit" when scope_error ended the process
mrb_generate_code_impl(gs, tree) ==
  LET g1 == scope_new_root(gs)
      g2 == codegen(g1, tree, NOVAL)
      root == g2.scopes[1].id
  IN IF Ok(g2) THEN [g2 EXCEPT !.pools = PoolClose(@, {root}), !.result = "proc"]
     ELSE IF g2.err = "exit" \/ g2.err = "null dereference" THEN [g2 EXCEPT !.result = "exit"]
     ELSE [g2 EXCEPT !.pools = PoolClose(@, {root}), !.result = "NULL"]

\* the body of the function named fn, applied to its arguments
Invoke(fn, x1, x2, x3, x4, x5, x6, x7, x8) ==
  CASE fn = "codegen_error" -> codegen_error_impl(x1, x2, x3)
    [] fn = "Alloc" -> Alloc_impl(x1, x2, x3)
    [] fn = "codegen_palloc" -> codegen_palloc_impl(x1)
    [] fn = "codegen_malloc" -> codegen_malloc_impl(x1)
    [] fn = "codegen_realloc" -> codegen_realloc_impl(x1, x2, x3)
    [] fn = "new_label" -> new_label_impl(x1)
    [] fn = "genop" -> genop_impl(x1, x2)
    [] fn = "PcDec" -> PcDec_impl(x1)
    [] fn = "SetLast" -> SetLast_impl(x1, x2)
    [] fn = "peephole" -> peephole_impl(x1, x2, x3)
    [] fn = "genop_peep" -> genop_peep_impl(x1, x2, x3)
    [] fn = "HoldJump" -> HoldJump_impl(x1)
    [] fn = "scope_error" -> scope_error_impl(x1)
    [] fn = "dispatch" -> dispatch_impl(x1, x2)
    [] fn = "dispatch_loop" -> dispatch_loop_impl(x1, x2)
    [] fn = "dispatch_linked" -> dispatch_linked_impl(x1, x2)
    [] fn = "push_" -> push__impl(x1)
    [] fn = "push_n_" -> push_n__impl(x1, x2)
    [] fn = "pop_n" -> pop_n_impl(x1, x2)
    [] fn = "pop_" -> pop__impl(x1)
    [] fn = "new_lit" -> new_lit_impl(x1, x2)
    [] fn = "new_msym" -> new_msym_impl(x1, x2)
    [] fn = "new_sym" -> new_sym_impl(x1, x2)
    [] fn = "scope_add_irep" -> scope_add_irep_impl(x1, x2)
    [] fn = "scope_new" -> scope_new_impl(x1, x2)
    [] fn = "scope_new_root" -> scope_new_root_impl(x1)
    [] fn = "scope_finish" -> scope_finish_impl(x1)
    [] fn = "loop_push" -> loop_push_impl(x1, x2)
    [] fn = "loop_pop" -> loop_pop_impl(x1, x2)
    [] fn = "SetLoop" -> SetLoop_impl(x1, x2, x3, x4)
    [] fn = "raise_error" -> raise_error_impl(x1, x2)
    [] fn = "attrsym" -> attrsym_impl(x1, x2)
    [] fn = "AryAdd" -> AryAdd_impl(x1, x2)
    [] fn = "gen_values_step" -> gen_values_step_impl(x1, x2, x3, x4)
    [] fn = "gen_values_range" -> gen_values_range_impl(x1, x2, x3, x4, x5)
    [] fn = "gen_values" -> gen_values_impl(x1, x2, x3)
    [] fn = "CallOp" -> CallOp_impl(x1, x2, x3, x4, x5, x6, x7, x8)
    [] fn = "gen_call" -> gen_call_impl(x1, x2, x3, x4, x5, x6)
    [] fn = "UpvarOf" -> UpvarOf_impl(x1, x2)
    [] fn = "gen_assignment" -> gen_assignment_impl(x1, x2, x3, x4)
    [] fn = "vm_pre" -> vm_pre_impl(x1, x2, x3, x4)
    [] fn = "vm_post" -> vm_post_impl(x1, x2, x3)
    [] fn = "gen_vmassignment" -> gen_vmassignment_impl(x1, x2, x3, x4)
    [] fn = "LastRep" -> LastRep_impl(x1)
    [] fn = "scope_body" -> scope_body_impl(x1, x2, x3)
    [] fn = "BodyReturn" -> BodyReturn_impl(x1, x2)
    [] fn = "opt_jumps" -> opt_jumps_impl(x1, x2)
    [] fn = "opt_values" -> opt_values_impl(x1, x2, x3, x4)
    [] fn = "lambda_body" -> lambda_body_impl(x1, x2, x3)
    [] fn = "gen_int" -> gen_int_impl(x1, x2, x3)
    [] fn = "begin_loop" -> begin_loop_impl(x1, x2, x3, x4, x5)
    [] fn = "rescue_classes" -> rescue_classes_impl(x1, x2, x3, x4, x5)
    [] fn = "rescue_clauses" -> rescue_clauses_impl(x1, x2, x3, x4, x5, x6, x7)
    [] fn = "case_patterns" -> case_patterns_impl(x1, x2, x3, x4, x5)
    [] fn = "case_clauses" -> case_clauses_impl(x1, x2, x3, x4, x5, x6)
    [] fn = "HashFlush" -> HashFlush_impl(x1, x2, x3)
    [] fn = "hash_step" -> hash_step_impl(x1, x2, x3, x4)
    [] fn = "hash_range" -> hash_range_impl(x1, x2, x3, x4, x5)
    [] fn = "OpAsgnOp" -> OpAsgnOp_impl(x1, x2, x3, x4)
    [] fn = "ArgInfo" -> ArgInfo_impl(x1)
    [] fn = "PopErrs" -> PopErrs_impl(x1, x2)
    [] fn = "EpopTo" -> EpopTo_impl(x1, x2)
    [] fn = "loop_break" -> loop_break_impl(x1, x2)
    [] fn = "dstr_loop" -> dstr_loop_impl(x1, x2, x3, x4)
    [] fn = "masgn_values" -> masgn_values_impl(x1, x2, x3)
    [] fn = "masgn_pre" -> masgn_pre_impl(x1, x2, x3, x4)
    [] fn = "masgn_post" -> masgn_post_impl(x1, x2, x3, x4, x5, x6)
    [] fn = "codegen" -> codegen_impl(x1, x2, x3)
    [] fn = "mrb_generate_code" -> mrb_generate_code_impl(x1, x2)

(* ------------------------------------------------------------------ *)
(* Parse trees handed to the generator                                 *)
(* ------------------------------------------------------------------ *)
\* a symbol the program text introduces (a variable, constant or method name)
UserSym(k) == Len(SymNames) + k

Rep(n, x) == [i \in 1..n |-> x]

nLit(nt) == Nd(nt, <<>>, <<>>, 0, 0, <<>>)
nVar(nt, sym) == Nd(nt, <<>>, <<>>, sym, 0, <<>>)
nInt(d) == Nd("INT", <<>>, <<>>, 0, 10, d)
nStr(id, len) == Nd("STR", <<>>, <<>>, id, len, <<>>)
nBegin(l) == Nd("BEGIN", <<>>, l, 0, 0, <<>>)
nIf(c, a, b) == Nd("IF", <<c, a, b>>, <<>>, 0, 0, <<>>)
nLoop(nt, c, body) == Nd(nt, <<c, body>>, <<>>, 0, 0, <<>>)
nBin(nt, a, b) == Nd(nt, <<a, b>>, <<>>, 0, 0, <<>>)
nWhen(pats, body) == Nd("WHEN", <<body>>, pats, 0, 0, <<>>)
nCase(head, whens) == Nd("CASE", <<head>>, whens, 0, 0, <<>>)
nResbody(classes, var, body) == Nd("RESBODY", <<var, body>>, classes, 0, 0, <<>>)
nRescue(body, clauses, els) == Nd("RESCUE", <<body, els>>, clauses, 0, 0, <<>>)
nScope(lv, body) == Nd("SCOPE", <<body>>, <<>>, 0, 0, lv)
nEnsure(body, ens) == Nd("ENSURE", <<body, nScope(<<>>, ens)>>, <<>>, 0, 0, <<>>)
nLambda(nt, lv, body) == Nd(nt, <<body, NULL>>, <<>>, 0, 0, lv)
nCall(recv, sym, args, blk) == Nd("CALL", <<recv, blk>>, args, sym, 1, <<>>)
nSend(recv, sym) == Nd("CALL", <<recv, NULL>>, <<>>, sym, 0, <<>>)
nList(nt, l) == Nd(nt, <<>>, l, 0, 0, <<>>)
nOne(nt, e) == Nd(nt, <<e>>, <<>>, 0, 0, <<>>)
nOpAsgn(lhs, sym, rhs) == Nd("OP_ASGN", <<lhs, rhs>>, <<>>, sym, 0, <<>>)
nSuper(args, blk) == Nd("SUPER", <<blk>>, args, 0, 1, <<>>)
nDef(sym, lv, body) == Nd("DEF", <<nLambda("LAMBDA", lv, body)>>, <<>>, sym, 0, <<>>)

\* the names the sample programs use
va == UserSym(1)
vb == UserSym(2)
cA == UserSym(3)
mf == UserSym(4)
lva == nVar("LVAR", va)
one == nInt(<<1>>)
cond == nVar("GVAR", vb)

\* while $b; begin; redo; rescue; end; end
RedoInBegin ==
  nLoop("WHILE", cond, nRescue(nLit("REDO"), <<nResbody(<<>>, NULL, nLit("NIL"))>>, NULL))
\* while $b; begin; next; rescue; end; end
NextInBegin ==
  nLoop("WHILE", cond, nRescue(nOne("NEXT", NULL), <<nResbody(<<>>, NULL, nLit("NIL"))>>, NULL))
\* while $b; begin; break; rescue; end; end
BreakInBegin ==
  nLoop("WHILE", cond, nRescue(nOne("BREAK", NULL), <<nResbody(<<>>, NULL, nLit("NIL"))>>, NULL))
\* while $b; begin; begin; f; rescue; break; end; rescue; end; end
BreakInNestedRescue ==
  nLoop("WHILE", cond,
        nRescue(nRescue(nSend(nLit("SELF"), mf),
                        <<nResbody(<<>>, NULL, nOne("BREAK", NULL))>>, NULL),
                <<nResbody(<<>>, NULL, nLit("NIL"))>>, NULL))
\* while $b; begin; begin; break; rescue; end; rescue; end; end
BreakInTwoBegins ==
  nLoop("WHILE", cond,
        nRescue(nRescue(nOne("BREAK", NULL), <<nResbody(<<>>, NULL, nLit("NIL"))>>, NULL),
                <<nResbody(<<>>, NULL, nLit("NIL"))>>, NULL))
\* while $b; begin; begin; break; rescue; end; ensure; nil; end; end
BreakInBeginInEnsure ==
  nLoop("WHILE", cond,
        nEnsure(nRescue(nOne("BREAK", NULL), <<nResbody(<<>>, NULL, nLit("NIL"))>>, NULL),
                nLit("NIL")))
\* begin; f; rescue; retry; end
RetryInRescue ==
  nRescue(nSend(nLit("SELF"), mf), <<nResbody(<<>>, NULL, nLit("RETRY"))>>, NULL)
\* begin; return; rescue; end
ReturnInBegin ==
  nRescue(nOne("RETURN", NULL), <<nResbody(<<>>, NULL, nLit("NIL"))>>, NULL)
\* while $b; A ||= 1; break; end
BreakAfterOrAsgn ==
  nLoop("WHILE", cond,
        nBegin(<<nOpAsgn(nVar("CONST", cA), mrb_intern_lit("||"), one), nOne("BREAK", NULL)>>))
\* while $b; A ||= 1; break; break; end
BreakTwiceAfterOrAsgn ==
  nLoop("WHILE", cond,
        nBegin(<<nOpAsgn(nVar("CONST", cA), mrb_intern_lit("||"), one),
                 nOne("BREAK", NULL), nOne("BREAK", NULL)>>))
\* f(1, ..., 1) with n arguments
CallWith(n) == nCall(nLit("SELF"), mf, Rep(n, one), NULL)
\* n lambdas in one scope
Lambdas(n) == nBegin(Rep(n, nLambda("LAMBDA", <<>>, nLit("NIL"))))

\* a hash literal of n pairs 1 => 1
HashOf(n) == nList("HASH", Rep(n, nBin("PAIR", one, one)))
\* def f; $b && return; end
DefAndReturn == nDef(mf, <<>>, nBin("AND", cond, nOne("RETURN", NULL)))

\* the statements and expressions the compile is run on
Nodes ==
  { nLit("NIL"), nLit("TRUE"), nLit("FALSE"), nLit("SELF"), lva, cond,
    nVar("IVAR", va), nVar("CVAR", va), nVar("CONST", cA), one, nStr(1, 3),
    nInt(<<3, 2, 7, 6, 6>>), nInt(<<3, 2, 7, 6, 7>>), nInt(<<3, 2, 7, 6, 8>>), nInt(<<1, 10>>),
    nInt(<<2, 1, 4, 7, 4, 8, 3, 6, 4, 8>>),
    nOne("NEGATE", nInt(<<3, 2, 7, 6, 6>>)), nOne("NEGATE", nInt(<<3, 2, 7, 6, 7>>)),
    nOne("NEGATE", nInt(<<3, 2, 7, 6, 8>>)),
    nOne("NEGATE", nInt(<<2, 1, 4, 7, 4, 8, 3, 6, 4, 8>>)),
    nList("DSTR", <<nStr(1, 1), lva>>), nList("DSTR", <<>>),
    nOne("NEGATE", one), nOne("NEGATE", lva),
    nBegin(<<>>), nBegin(<<one, lva>>),
    nIf(cond, one, NULL), nIf(cond, one, lva), nIf(nLit("TRUE"), one, lva),
    nBin("AND", cond, one), nBin("OR", cond, one),
    nLoop("WHILE", cond, one), nLoop("UNTIL", cond, one),
    nLoop("WHILE", cond, nOne("BREAK", one)), nLoop("WHILE", cond, nOne("NEXT", NULL)),
    nLoop("WHILE", cond, nLit("REDO")), nLoop("WHILE", cond, nOne("BREAK", NULL)),
    nLoop("WHILE", cond, nEnsure(nOne("BREAK", NULL), nLit("NIL"))),
    RedoInBegin, NextInBegin, BreakInBegin, RetryInRescue, ReturnInBegin,
    BreakAfterOrAsgn, BreakTwiceAfterOrAsgn,
    nCase(lva, <<nWhen(<<one>>, one), nWhen(<<>>, lva)>>),
    nCase(NULL, <<nWhen(<<cond>>, one)>>),
    nRescue(nSend(nLit("SELF"), mf), <<nResbody(<<nVar("CONST", cA)>>, lva, one)>>, lva),
    nRescue(NULL, <<>>, NULL),
    nEnsure(one, lva),
    nLambda("LAMBDA", <<vb>>, lva), nLambda("BLOCK", <<>>, nOne("NEXT", one)),
    nLambda("BLOCK", <<>>, nOne("BREAK", NULL)),
    nSend(lva, mf), CallWith(1), CallWith(2),
    nCall(nLit("SELF"), mf, <<nOne("SPLAT", lva)>>, NULL),
    nCall(nLit("SELF"), mf, <<one>>, nLambda("BLOCK", <<>>, nLit("NIL"))),
    nCall(lva, mrb_intern_lit("+"), <<one>>, NULL),
    [CallWith(1) EXCEPT !.nt = "SCALL"],
    CallWith(126), CallWith(127), CallWith(128),
    nList("ARRAY", <<one, lva>>), nList("ARRAY", <<nOne("SPLAT", lva), one>>),
    nList("HASH", <<nBin("PAIR", one, lva)>>),
    HashOf(125), HashOf(126), HashOf(127),
    BreakInNestedRescue, BreakInTwoBegins, BreakInBeginInEnsure,
    nBin("ASGN", lva, one), nBin("ASGN", cond, one), nBin("ASGN", nSend(lva, mf), one),
    nOpAsgn(lva, mrb_intern_lit("+"), one), nOpAsgn(nVar("CONST", cA), mrb_intern_lit("||"), one),
    nOpAsgn(nSend(lva, mf), mrb_intern_lit("+"), one),
    nOpAsgn(lva, mrb_intern_lit("&&"), one),
    nSuper(<<one>>, NULL), nLit("ZSUPER"), nList("YIELD", <<one>>),
    nOne("RETURN", one), nOne("BREAK", NULL), nOne("BREAK", one), nOne("NEXT", NULL),
    nLit("REDO"), nLit("RETRY"),
    nBin("DOT2", one, lva), Nd("COLON2", <<lva>>, <<>>, cA, 0, <<>>),
    DefAndReturn, nDef(mf, <<va>>, lva),
    Lambdas(8), Lambdas(9) }

(* ------------------------------------------------------------------ *)
(* The compile as a state machine.  g is the generator's state, in the  *)
(* input of the last operation, op its name.                            *)
(* ------------------------------------------------------------------ *)
MaxFailAt == 17

NoInput == [tree |-> NULL, val |-> NOVAL, sp |-> 0, loops |-> 0, failAt |-> 0]

Init ==
  /\ g \in {Fresh(0, n) : n \in BOOLEAN}
  /\ in = NoInput
  /\ op = "init"

\* mrb_generate_code on the program  p  of one top-level scope with the local a
Generate ==
  /\ op = "init"
  /\ \E p \in Nodes, f \in 0..MaxFailAt :
       /\ g' = mrb_generate_code([g EXCEPT !.failAt = f], nScope(<<va>>, p))
       /\ in' = [NoInput EXCEPT !.tree = p, !.failAt = f]
  /\ op' = "mrb_generate_code"

\* the first steps of mrb_generate_code and scope_body: the root scope and
\* the scope of the program
ScopeNew ==
  /\ op = "init"
  /\ g' = scope_new(scope_new_root(g), <<va>>)
  /\ in' = in
  /\ op' = "scope_new"

\* codegen(s, node, val) in the scope of the program
Codegen ==
  /\ op = "scope_new"
  /\ \E node \in Nodes, val \in {NOVAL, VAL} :
       /\ g' = codegen(g, node, val)
       /\ in' = [NoInput EXCEPT !.tree = node, !.val = val, !.sp = cursp(g),
                                !.loops = Len(Cur(g).loop)]
  /\ op' = "codegen"

\* the argument and element lists gen_values is run on: up to two elements
\* with a splat at any place, and plain lists of 126 to 129 elements, alone
\* and followed by a splat
ArgLists ==
  { <<>>, <<one>>, <<one, lva>>,
    <<nOne("SPLAT", lva)>>, <<one, nOne("SPLAT", lva)>>, <<nOne("SPLAT", lva), one>>,
    <<nOne("SPLAT", lva), nOne("SPLAT", lva)>>,
    <<nOne("SPLAT", nList("ARRAY", <<one, lva>>))>>,
    <<nOne("SPLAT", nList("ARRAY", <<one>>)), lva>>,
    <<one, nOne("SPLAT", nList("ARRAY", <<one>>))>>,
    Rep(126, one), Rep(127, one), Rep(128, one), Rep(129, one),
    Rep(126, one) \o <<nOne("SPLAT", lva)>>, Rep(127, one) \o <<nOne("SPLAT", lva)>>,
    Rep(128, one) \o <<nOne("SPLAT", lva)>> }

\* gen_values(s, t, val) in the scope of the program; in.tree keeps the list
GenValues ==
  /\ op = "scope_new"
  /\ \E l \in ArgLists, val \in {NOVAL, VAL} :
       /\ g' = gen_values(g, l, val)
       /\ in' = [NoInput EXCEPT !.tree = nList("ARGS", l), !.val = val, !.sp = cursp(g)]
  /\ op' = "gen_values"

\* the end of scope_body under the root scope: OP_STOP and scope_finish
ScopeFinish ==
  /\ op = "codegen"
  /\ Ok(g)
  /\ g' = scope_finish(genop(g, MKOP_A("STOP", 0)))
  /\ in' = in
  /\ op' = "scope_finish"

Next == Generate \/ ScopeNew \/ Codegen \/ GenValues \/ ScopeFinish

Spec == Init /\ [][Next]_vars

\* ---------------------------------------------------------------------------
\* C1 - the register contract of codegen: a call codegen(s, node, val) that
\* returns without error leaves sp one above its value at entry in VAL mode
\* and at its value at entry in NOVAL mode, for every node kind.
C1_SpContract ==
  (op = "codegen" /\ Ok(g)) => cursp(g) = in.sp + in.val

\* the contract as it holds for an ordinary expression: a local variable
\* lowered in VAL mode pushed exactly one register
C1_LvarPushed ==
  /\ op = "codegen" /\ Ok(g)
  /\ in.tree = lva /\ in.val = VAL
  /\ cursp(g) = in.sp + 1

\* the instructions the compile has emitted so far: the finished procedures
\* and the code buffers of the scopes still open
Iseqs == {g.ireps[i].iseq : i \in {j \in 1..Len(g.ireps) : g.ireps[j].done}}
           \cup {g.scopes[k].iseq : k \in 1..Len(g.scopes)}

\* ---------------------------------------------------------------------------
\* C3 - when scope_finish runs on a scope, every jump that was emitted in it
\* as a forward placeholder or as a member of a jump chain has been rewritten
\* by dispatch: no finished procedure keeps a jump still waiting for dispatch.
C3_AllDispatched ==
  \A i \in 1..Len(g.ireps) : g.ireps[i].done => g.ireps[i].unpatched = {}

\* ---------------------------------------------------------------------------
\* C7 - when a fatal error is raised during mrb_generate_code, the result is
\* NULL and the arena of every scope opened during the compile has been
\* closed exactly once.
C7_ArenasClosedOnce ==
  (op = "mrb_generate_code" /\ g.err # "" /\ g.result # "exit")
     => /\ g.result = "NULL"
        /\ \A k \in 1..Len(g.pools) : g.pools[k] = 1

\* ---------------------------------------------------------------------------
\* C8 - break, next or redo lowered with no loop frame, or retry with no
\* rescue frame: raise_error adds the message to the literal pool and emits
\* OP_ERR for it, the lowering returns normally, and a compile of such a
\* program with no allocation failure ends with a procedure, not with NULL.
LoopExits == {"BREAK", "NEXT", "REDO", "RETRY"}

ErrMessage(nt) ==
  CASE nt = "BREAK" -> "unexpected break"
    [] nt = "NEXT"  -> "unexpected next"
    [] nt = "REDO"  -> "unexpected redo"
    [] nt = "RETRY" -> "unexpected retry"

\* the scope's code ends with OP_ERR 1, idx (followed at most by nothing: the
\* push of VAL mode emits no code) and pool[idx] is the message
EndsWithErr(s, msg) ==
  /\ s.pc > 0
  /\ s.iseq[s.pc].op = "ERR" /\ s.iseq[s.pc].a = 1
  /\ GETARG_Bx(s.iseq[s.pc]) + 1 \in 1..Len(s.pool)
  /\ s.pool[GETARG_Bx(s.iseq[s.pc]) + 1] = StrLit(msg, 1)

SendOps == {"SEND", "SENDB", "SUPER"}
PackOps == {"ARRAY", "ARYCAT", "ARYPUSH", "ARGARY"}

C10_SentinelMeansPacked ==
  \A code \in Iseqs : \A q \in 1..Len(code) :
    (code[q].op \in SendOps /\ code[q].c = CALL_MAXARGS)
      => \E r \in 1..(q - 1) : code[r].op \in PackOps /\ code[r].a = code[q].a + 1

\* ---------------------------------------------------------------------------
\* C4 - in every finished procedure, each JMP, JMPIF, JMPNOT or ONERR whose
\* target the generator resolved (a jump patched by dispatch, or a backward
\* jump to a recorded label) points at an instruction of that procedure:
\* 0 <= pc + sBx < ilen.
ResolvedJumps(irep) ==
  {q \in 1..irep.ilen : irep.iseq[q].op \in JumpOps /\ (q - 1) \notin irep.unpatched}

MaxRegionDepth == 3

PathStep(irep, t) ==
  LET pc == t[1]
      r == t[2]
      e == t[3]
      i == irep.iseq[pc + 1]
      c == GET_OPCODE(i)
      to == pc + GETARG_sBx(i)
  IN CASE c = "ONERR"   -> {<<pc + 1, r + 1, e>>, <<to, r, e>>}
       [] c = "POPERR"  -> {<<pc + 1, r - GETARG_A(i), e>>}
       [] c = "EPUSH"   -> {<<pc + 1, r, e + 1>>}
       [] c = "EPOP"    -> {<<pc + 1, r, e - GETARG_A(i)>>}
       [] c = "JMP"     -> {<<to, r, e>>}
       [] c \in {"JMPIF", "JMPNOT"} -> {<<pc + 1, r, e>>, <<to, r, e>>}
       [] c \in {"RETURN", "STOP", "ERR", "RAISE"} -> {}
       [] OTHER -> {<<pc + 1, r, e>>}

\* positions inside the code whose depths are within the bound of the search
InCode(irep, t) ==
  /\ t[1] \in 0..(irep.ilen - 1)
  /\ t[2] \in 0..MaxRegionDepth
  /\ t[3] \in 0..MaxRegionDepth

RECURSIVE PathsFrom(_, _, _)
PathsFrom(irep, seen, frontier) ==
  IF frontier = {} THEN seen
  ELSE LET next == UNION {PathStep(irep, t) : t \in {u \in frontier : InCode(irep, u)}}
       IN PathsFrom(irep, seen \cup frontier, next \ (seen \cup frontier))

Paths(irep) == PathsFrom(irep, {}, {<<0, 0, 0>>})

\* every path closes what it opened: no position is reached with more
\* regions closed than opened, no instruction is reached with two different
\* sets of open regions (a path left a region without its POPERR or EPOP, or
\* closed one it was not in), and a RETURN runs with no region open
RegionsClosed(irep) ==
  LET P == Paths(irep)
  IN /\ \A t \in P : t[2] >= 0 /\ t[3] >= 0
     /\ \A t, u \in P : t[1] = u[1] => t = u
     /\ \A t \in P : (InCode(irep, t) /\ irep.iseq[t[1] + 1].op = "RETURN")
                        => t[2] = 0 /\ t[3] = 0

HasRegion(irep) == \E q \in 1..irep.ilen : irep.iseq[q].op \in {"ONERR", "EPUSH"}

C2_RegionsClosedOnEveryPath ==
  \A i \in 1..Len(g.ireps) :
    (g.ireps[i].done /\ HasRegion(g.ireps[i])) => RegionsClosed(g.ireps[i])

(* ------------------------------------------------------------------ *)
(* The register stack of one scope: scope_new, then push, push_n, pop   *)
(* and pop_n in any order, then scope_finish.  in records the operand   *)
(* of the last operation and what the stack pointer has done so far.    *)
(* ------------------------------------------------------------------ *)
MaxSp == 6
MaxPushN == 3

Max(a, b) == IF a >= b THEN a ELSE b

\* maxsp: the largest sp so far, the one set by scope_new included;
\* maxpush: the largest sp a push or push_n has reached (0 if none);
\* pushed: whether push or push_n has run in the scope
RegInit ==
  /\ g \in {Fresh(0, n) : n \in BOOLEAN}
  /\ in = [n |-> 0, maxsp |-> 0, maxpush |-> 0, pushed |-> FALSE]
  /\ op = "init"

RegOps == {"scope_new", "push", "push_n", "pop", "pop_n"}

RegScopeNew ==
  /\ op = "init"
  /\ \E lv \in {<<>>, <<va>>, <<va, vb>>} :
       /\ g' = scope_new(scope_new_root(g), lv)
       /\ in' = [in EXCEPT !.n = Len(lv), !.maxsp = cursp(g')]
  /\ op' = "scope_new"

RegPush ==
  /\ op \in RegOps
  /\ cursp(g) < MaxSp
  /\ g' = push_(g)
  /\ in' = [in EXCEPT !.n = 1, !.maxsp = Max(@, cursp(g')),
                      !.maxpush = Max(@, cursp(g')), !.pushed = TRUE]
  /\ op' = "push"

RegPushN ==
  /\ op \in RegOps
  /\ \E n \in 0..MaxPushN :
       /\ cursp(g) + n <= MaxSp
       /\ g' = push_n_(g, n)
       /\ in' = [in EXCEPT !.n = n, !.maxsp = Max(@, cursp(g')),
                           !.maxpush = Max(@, cursp(g')), !.pushed = TRUE]
  /\ op' = "push_n"

RegPop ==
  /\ op \in RegOps
  /\ cursp(g) > 0
  /\ g' = pop_(g)
  /\ in' = [in EXCEPT !.n = 1]
  /\ op' = "pop"

RegPopN ==
  /\ op \in RegOps
  /\ \E n \in 0..MaxPushN :
       /\ cursp(g) >= n
       /\ g' = pop_n(g, n)
       /\ in' = [in EXCEPT !.n = n]
  /\ op' = "pop_n"

RegScopeFinish ==
  /\ op \in RegOps
  /\ g' = scope_finish(g)
  /\ in' = in
  /\ op' = "scope_finish"

RegNext == RegScopeNew \/ RegPush \/ RegPushN \/ RegPop \/ RegPopN \/ RegScopeFinish

RegSpec == RegInit /\ [][RegNext]_vars

\* ---------------------------------------------------------------------------
\* C5 - nregs is the largest sp that push or push_n has reached in the scope
\* (0 while the scope has not pushed): from the first push on nregs >= sp,
\* before it nregs = 0 although scope_new has set sp to the number of locals
\* plus one, and scope_finish stores that nregs in the procedure.
C5_NregsIsLargestPushed ==
  /\ op \in RegOps =>
       LET s == Cur(g)
       IN /\ s.nregs = in.maxpush
          /\ in.pushed => s.nregs >= s.sp
          /\ ~in.pushed => s.nregs = 0 /\ s.sp >= 0
  /\ op = "scope_finish" => g.ireps[1].done /\ g.ireps[1].nregs = in.maxpush

\* a scope finished after popping below its first sp and pushing again: the
\* stored nregs is the largest pushed sp, below the sp scope_new had set
C5_FinishedBelowInitial ==
  /\ op = "scope_finish"
  /\ in.pushed
  /\ g.ireps[1].nregs = in.maxpush
  /\ in.maxpush < in.maxsp

\* the claim as stated: nregs >= sp in every state of the scope, and the
\* stored nregs is the largest sp of the compilation, the initial one included
C5_NregsCoversEverySp ==
  /\ op \in RegOps => Cur(g).nregs >= Cur(g).sp
  /\ op = "scope_finish" => g.ireps[1].nregs = in.maxsp

(* ------------------------------------------------------------------ *)
(* The code buffer of one scope: genop, genop_peep, new_label and       *)
(* dispatch in any order.  After genop_peep, in records the instruction *)
(* handed to it and pc, lastlabel and the code before the call.         *)
(* ------------------------------------------------------------------ *)
MaxPc == 3

\* instructions over the registers 1 (the local a), 2 and 3 of a scope with
\* one local, among them every pair the peephole fuses
PeepInstrs ==
  { MKOP_AB("MOVE", 1, 2), MKOP_AB("MOVE", 2, 1), MKOP_AsBx("LOADI", 2, 1),
    MKOP_ABx("SETIV", 2, 0), MKOP_AsBx("JMPNOT", 2, 0),
    MKOP_AB("RETURN", 2, OP_R_NORMAL) }

\* in after an operation other than genop_peep
NoPeep == [i |-> MKOP_A("NOP", 0), val |-> NOVAL, pc |-> 0, lastlabel |-> 0, iseq |-> <<>>]

PeepInit ==
  /\ g \in {Fresh(0, n) : n \in BOOLEAN}
  /\ in = NoPeep
  /\ op = "init"

PeepOps == {"scope_new", "genop", "genop_peep", "new_label", "dispatch"}

\* what in keeps of the scope before an operation
Before(i, val) ==
  [i |-> i, val |-> val, pc |-> Cur(g).pc, lastlabel |-> Cur(g).lastlabel,
   iseq |-> Cur(g).iseq]

PeepScopeNew ==
  /\ op = "init"
  /\ g' = scope_new(scope_new_root(g), <<va>>)
  /\ in' = in
  /\ op' = "scope_new"

PeepGenop ==
  /\ op \in PeepOps
  /\ Cur(g).pc < MaxPc
  /\ \E i \in PeepInstrs :
       /\ g' = genop(g, i)
       /\ in' = NoPeep
  /\ op' = "genop"

PeepGenopPeep ==
  /\ op \in PeepOps
  /\ Cur(g).pc < MaxPc
  /\ \E i \in PeepInstrs, val \in {NOVAL, VAL} :
       /\ g' = genop_peep(g, i, val)
       /\ in' = Before(i, val)
  /\ op' = "genop_peep"

PeepNewLabel ==
  /\ op \in PeepOps
  /\ g' = new_label(g)
  /\ in' = NoPeep
  /\ op' = "new_label"

PeepDispatch ==
  /\ op \in PeepOps
  /\ \E pc \in 0..(Cur(g).pc - 1) :
       /\ Cur(g).iseq[pc + 1].op \in JumpOps
       /\ g' = dispatch(g, pc)
       /\ in' = NoPeep
  /\ op' = "dispatch"

PeepNext == PeepScopeNew \/ PeepGenop \/ PeepGenopPeep \/ PeepNewLabel \/ PeepDispatch

PeepSpec == PeepInit /\ [][PeepNext]_vars

\* ---------------------------------------------------------------------------
\* C6 - genop_peep(s, i, val) with optimization disabled, or lastlabel = pc,
\* or pc = 0 appends i unchanged at index pc, advances pc by one and returns
\* the old pc; and in every call the code before the last label stays as it
\* was and pc does not fall below the label: no instruction before a jump
\* target is fused with one emitted after it.
C6_NoRewriteAtLabel ==
  op = "genop_peep" =>
    LET s == Cur(g)
    IN /\ (g.no_optimize \/ in.lastlabel = in.pc \/ in.pc = 0)
            => /\ s.iseq = Append(in.iseq, in.i)
               /\ s.pc = in.pc + 1
               /\ g.ret = in.pc
       /\ s.pc >= in.lastlabel
       /\ SubSeq(s.iseq, 1, in.lastlabel) = SubSeq(in.iseq, 1, in.lastlabel)

\* with optimization on, a MOVE that the peephole would fold into the LOADI
\* before it was emitted right after a label and so appended as it is
C6_KeptAfterLabel ==
  /\ op = "genop_peep" /\ ~g.no_optimize
  /\ in.pc > 0 /\ in.lastlabel = in.pc
  /\ in.iseq[in.pc] = MKOP_AsBx("LOADI", 2, 1)
  /\ in.i = MKOP_AB("MOVE", 1, 2) /\ in.val = NOVAL
  /\ Cur(g).iseq = Append(in.iseq, in.i)

(* ------------------------------------------------------------------ *)
(* The symbol table of one scope: new_msym and new_sym in any order.    *)
(* The k-th distinct symbol of the run is UserSym(k).  in records the   *)
(* symbol handed to the last operation, the table before it, and how    *)
(* many distinct symbols new_msym (nmsym) and new_sym (nsym) have added.*)
(* ------------------------------------------------------------------ *)
MaxNewSym == 2

SymInit ==
  /\ g = Fresh(0, FALSE)
  /\ in = [sym |-> 0, syms |-> <<>>, nmsym |-> 0, nsym |-> 0]
  /\ op = "init"

SymOps == {"scope_new", "new_msym", "new_sym"}

SymScopeNew ==
  /\ op = "init"
  /\ g' = scope_new(scope_new_root(g), <<va>>)
  /\ in' = in
  /\ op' = "scope_new"

\* the symbols an operation is tried with: the first and the latest symbol
\* of the run, and one not seen before
Candidates == {UserSym(k) : k \in {1, in.nmsym + in.nsym, in.nmsym + in.nsym + 1} \ {0}}

IsFresh(sym) == sym = UserSym(in.nmsym + in.nsym + 1)

\* the table is longer than the array allocated for it: a store went past
\* the end of the allocation, after which nothing about the run is defined
Overrun(gs) == Len(Cur(gs).syms) > Cur(gs).symalloc

SymNewMsym ==
  /\ op \in SymOps /\ Ok(g) /\ ~Overrun(g)
  /\ \E sym \in Candidates :
       /\ g' = new_msym(g, sym)
       /\ in' = [in EXCEPT !.sym = sym, !.syms = Cur(g).syms,
                           !.nmsym = IF IsFresh(sym) /\ Ok(g') THEN @ + 1 ELSE @]
  /\ op' = "new_msym"

\* the table lengths at which new_sym is tried: empty, the last length it
\* leaves dense (125), the first and the last it pads to 256 slots, and the
\* length 256 that new_msym alone can reach
SymPoints == {0, SymDense, SymDense + 1, MsymWindow - 1, MsymWindow}

\* new_sym stores at syms[slen] with no test against the allocated length
SymNewSym ==
  /\ op \in SymOps /\ Ok(g) /\ ~Overrun(g)
  /\ in.nsym < MaxNewSym
  /\ Len(Cur(g).syms) \in SymPoints
  /\ \E sym \in Candidates :
       /\ g' = new_sym(g, sym)
       /\ in' = [in EXCEPT !.sym = sym, !.syms = Cur(g).syms,
                           !.nsym = IF IsFresh(sym) THEN @ + 1 ELSE @]
  /\ op' = "new_sym"

SymNext == SymScopeNew \/ SymNewMsym \/ SymNewSym

SymSpec == SymInit /\ [][SymNext]_vars

\* ---------------------------------------------------------------------------
\* C9 - new_msym(s, sym) returns an index in 0..255 at which the table then
\* holds sym, and changes no slot but that one; a symbol found in the first
\* 256 slots is returned at its first index with the table unchanged; in a
\* table filled by new_msym alone the n-th distinct symbol goes to slot n-1
\* for n <= 256, and the 257th raises "too many symbols (max 256)"; the error
\* is raised only when the first 256 slots are full and do not hold sym.
Window(syms) == 1..(IF Len(syms) > MsymWindow THEN MsymWindow ELSE Len(syms))

C9_MsymWithin256 ==
  op = "new_msym" =>
    LET old == in.syms
        new == Cur(g).syms
        found == {j \in Window(old) : old[j] = in.sym}
    IN /\ Ok(g) =>
            /\ g.ret \in 0..(MsymWindow - 1)
            /\ new[g.ret + 1] = in.sym
            /\ Len(new) \in {Len(old), g.ret + 1}
            /\ \A j \in 1..Len(old) : j # g.ret + 1 => new[j] = old[j]
       /\ found # {} =>
            /\ Ok(g) /\ new = old
            /\ g.ret + 1 \in found /\ \A j \in found : g.ret + 1 <= j
       /\ (in.nsym = 0 /\ found = {}) =>
            /\ Len(old) = in.nmsym - (IF Ok(g) THEN 1 ELSE 0)
            /\ Len(old) < MsymWindow => Ok(g) /\ g.ret = Len(old) /\ new = Append(old, in.sym)
            /\ Len(old) = MsymWindow => g.err = "too many symbols (max 256)"
       /\ ~Ok(g) =>
            /\ g.err = "too many symbols (max 256)"
            /\ Len(old) >= MsymWindow /\ found = {}
            /\ \A j \in 1..MsymWindow : old[j] # 0

\* the 257th distinct symbol handed to new_msym, after 256 were accepted
C9_TooManySymbols ==
  /\ op = "new_msym" /\ in.nsym = 0 /\ in.nmsym = MsymWindow
  /\ Len(in.syms) = MsymWindow
  /\ in.sym = UserSym(MsymWindow + 1)
  /\ g.err = "too many symbols (max 256)"

\* ---------------------------------------------------------------------------
\* C11 - gen_values in VAL mode takes the direct path (one register per
\* element, the count returned) exactly when the list has no splat and at
\* most 127 elements; a list of 128 or more elements, or with a splat, is
\* built as an array (OP_ARRAY, then one OP_ARYCAT per splat and one
\* OP_ARYPUSH per other element from the switch on), -1 is returned and sp is
\* left where it was.  A leading splat of an array literal is the array
\* itself and has no OP_ARYCAT.
CountOp(code, o) == Cardinality({q \in 1..Len(code) : code[q].op = o})

\* the first element that is not lowered on the direct path (Len + 1: none)
SwitchAt(l) ==
  LET hits == {i \in 1..Len(l) : l[i].nt = "SPLAT" \/ i > CALL_MAXARGS}
  IN IF hits = {} THEN Len(l) + 1 ELSE CHOOSE i \in hits : \A j \in hits : i <= j

\* the leading element is a splat of an array literal
LiteralFirst(l) == Len(l) > 0 /\ l[1].nt = "SPLAT" /\ l[1].k[1].nt = "ARRAY"

C11_DirectIffPlainUpTo127 ==
  (op = "gen_values" /\ in.val = VAL /\ Ok(g)) =>
    LET l == in.tree.l
        code == Cur(g).iseq
        k == SwitchAt(l)
        direct == nosplat(l) /\ Len(l) <= 127
        rest == {i \in k..Len(l) : ~(i = 1 /\ LiteralFirst(l))}
    IN /\ direct <=> g.ret >= 0
       /\ direct => /\ g.ret = Len(l)
                     /\ cursp(g) = in.sp + Len(l)
                     /\ \A q \in 1..Len(code) : code[q].op \notin {"ARRAY", "ARYCAT", "ARYPUSH"}
       /\ ~direct => /\ g.ret = -1
                      /\ cursp(g) = in.sp
                      /\ \E q \in 1..Len(code) :
                            /\ code[q].op = "ARRAY"
                            /\ \A r \in 1..(q - 1) : code[r].op \notin {"ARYCAT", "ARYPUSH"}
                      /\ CountOp(code, "ARYCAT")
                            = Cardinality({i \in rest : l[i].nt = "SPLAT"})
                      /\ CountOp(code, "ARYPUSH")
                            = Cardinality({i \in rest : l[i].nt # "SPLAT"})

\* 128 plain elements: the first 127 are packed by one OP_ARRAY, the last is
\* added by OP_ARYPUSH, and -1 is returned
C11_ArrayAt128 ==
  /\ op = "gen_values" /\ in.val = VAL /\ Ok(g)
  /\ in.tree.l = Rep(128, one)
  /\ g.ret = -1
  /\ \E q \in 1..Cur(g).pc : Cur(g).iseq[q].op = "ARRAY" /\ Cur(g).iseq[q].c = CALL_MAXARGS
  /\ CountOp(Cur(g).iseq, "ARYPUSH") = 1

\* ---------------------------------------------------------------------------
\* C12 - an integer literal, or the negation of one, lowered in VAL mode with
\* a value i of at most nine decimal digits (every such value fits mrb_int):
\* OP_LOADI carries i exactly when
\* -MAXARG_sBx < i < MAXARG_sBx; any other value is added to the literal pool
\* and loaded by OP_LOADL.
IsIntLit(tree) == tree.nt = "INT" \/ (tree.nt = "NEGATE" /\ tree.k[1].nt = "INT")

\* the number a decimal text of digits 0..9 denotes
RECURSIVE DecimalValue(_)
DecimalValue(d) ==
  IF Len(d) = 0 THEN 0 ELSE DecimalValue(SubSeq(d, 1, Len(d) - 1)) * 10 + d[Len(d)]

IntText(tree) == IF tree.nt = "NEGATE" THEN tree.k[1].d ELSE tree.d

\* the value of an integer literal of at most nine digits; 0 for any other node
LitValue(tree) ==
  IF ~IsIntLit(tree) \/ Len(IntText(tree)) > 9 THEN 0
  ELSE IF tree.nt = "NEGATE" THEN -DecimalValue(IntText(tree))
  ELSE DecimalValue(IntText(tree))

\* codegen has lowered the integer literal in.tree of value i in VAL mode
IntLowered(i) ==
  /\ op = "codegen" /\ Ok(g) /\ in.val = VAL
  /\ IsIntLit(in.tree) /\ Len(IntText(in.tree)) <= 9 /\ LitValue(in.tree) = i

LoadedByLoadI(i) ==
  LET s == Cur(g)
  IN /\ s.pc = 1 /\ s.pool = <<>>
     /\ s.iseq[1] = MKOP_AsBx("LOADI", in.sp, i)

LoadedByLoadL(i) ==
  LET s == Cur(g)
  IN /\ s.pc = 1 /\ s.pool = <<FixLit(i)>>
     /\ s.iseq[1] = MKOP_ABx("LOADL", in.sp, 0)

C12_LoadIInsideOpenRange ==
  \A i \in {LitValue(in.tree)} :
    IntLowered(i) =>
      /\ cursp(g) = in.sp + 1
      /\ (-MAXARG_sBx < i /\ i < MAXARG_sBx) => LoadedByLoadI(i)
      /\ ~(-MAXARG_sBx < i /\ i < MAXARG_sBx) => LoadedByLoadL(i)

\* the literal 32767 = MAXARG_sBx, the first value above the range, was put
\* into the pool and loaded by OP_LOADL
C12_PoolAtUpperLimit ==
  /\ IntLowered(MAXARG_sBx) /\ in.tree.nt = "INT"
  /\ LoadedByLoadL(MAXARG_sBx)

\* ---------------------------------------------------------------------------
\* C13 - the negative limits: the literal -MAXARG_sBx is outside the range of
\* OP_LOADI and is loaded from the pool by OP_LOADL, like -(MAXARG_sBx + 1);
\* the lowest literal OP_LOADI carries is -(MAXARG_sBx - 1).
C13_LowerLimitFromPool ==
  /\ IntLowered(-(MAXARG_sBx - 1)) => LoadedByLoadI(-(MAXARG_sBx - 1))
  /\ IntLowered(-MAXARG_sBx) => LoadedByLoadL(-MAXARG_sBx)
  /\ IntLowered(-(MAXARG_sBx + 1)) => LoadedByLoadL(-(MAXARG_sBx + 1))

\* the literal -32767 lowered with OP_LOADL
C13_MinusLimitLoadL ==
  /\ IntLowered(-MAXARG_sBx) /\ in.tree.nt = "NEGATE"
  /\ LoadedByLoadL(-MAXARG_sBx)

\* the claim as stated: -MAXARG_sBx is lowered with OP_LOADI and
\* -(MAXARG_sBx + 1) with OP_LOADL
C13_LowerLimitLoadI ==
  /\ IntLowered(-MAXARG_sBx) => LoadedByLoadI(-MAXARG_sBx)
  /\ IntLowered(-(MAXARG_sBx + 1)) => LoadedByLoadL(-(MAXARG_sBx + 1))

\* ---------------------------------------------------------------------------
\* C14 - a hash literal of n pairs of plain literals lowered in VAL mode:
\* every 126th pair closes an OP_HASH of 126 pairs and the end of the literal
\* emits one more OP_HASH for the pairs left (none, for n = 126), merged by a
\* send of __update: n \div 126 + 1 OP_HASH and n \div 126 sends, so 125
\* pairs emit one OP_HASH and no send, and 126 pairs and 127 pairs emit two
\* OP_HASH and one send.
PlainHash(tree) ==
  /\ tree.nt = "HASH"
  /\ \A i \in 1..Len(tree.l) :
       tree.l[i].k[1].nt \in {"INT", "LVAR"} /\ tree.l[i].k[2].nt \in {"INT", "LVAR"}

\* codegen has lowered a hash literal of n plain pairs in VAL mode
HashLowered(n) ==
  /\ op = "codegen" /\ Ok(g) /\ in.val = VAL
  /\ PlainHash(in.tree) /\ Len(in.tree.l) = n

\* the code ends with the OP_HASH of the last left pairs merged into the hash
\* in register in.sp
EndsWithMerge(left) ==
  LET s == Cur(g)
  IN /\ s.pc >= 2
     /\ s.iseq[s.pc - 1] = MKOP_ABC("HASH", in.sp + 1, in.sp + 1, left)
     /\ GET_OPCODE(s.iseq[s.pc]) = "SEND"
     /\ GETARG_A(s.iseq[s.pc]) = in.sp /\ GETARG_C(s.iseq[s.pc]) = 1

AimedFrom(irep, pc) == {a \in irep.aimed : a[1] = pc}

C15_OffsetFromTheJump ==
  \A i \in 1..Len(g.ireps) :
    g.ireps[i].done =>
      \A q \in ResolvedJumps(g.ireps[i]) :
        /\ AimedFrom(g.ireps[i], q - 1) # {}
        /\ \A a \in AimedFrom(g.ireps[i], q - 1) :
             GETARG_sBx(g.ireps[i].iseq[q]) = a[2] - (q - 1)

\* a finished procedure holding a resolved forward jump and a resolved
\* backward jump
C15_ForwardAndBackward ==
  \E i \in 1..Len(g.ireps) :
    /\ g.ireps[i].done
    /\ \E q \in ResolvedJumps(g.ireps[i]) :
         \E a \in AimedFrom(g.ireps[i], q - 1) : a[2] > q
    /\ \E q \in ResolvedJumps(g.ireps[i]) :
         \E a \in AimedFrom(g.ireps[i], q - 1) : a[2] < q - 1

\* the claim as stated: sBx = target pc - (pc of the jump + 1)
C15_OffsetFromTheNext ==
  \A i \in 1..Len(g.ireps) :
    g.ireps[i].done =>
      \A q \in ResolvedJumps(g.ireps[i]) :
        \A a \in AimedFrom(g.ireps[i], q - 1) :
          GETARG_sBx(g.ireps[i].iseq[q]) = a[2] - ((q - 1) + 1)

\* ---------------------------------------------------------------------------
\* C16 - for the same tree, every procedure compiled with no_optimize set has
\* at least as many instructions as the corresponding procedure compiled with
\* the peephole enabled.
\* the compile of in.tree with the peephole enabled, no allocation failing
Peepholed == mrb_generate_code(Fresh(0, FALSE), nScope(<<va>>, in.tree))

\* mrb_generate_code has compiled in.tree with no_optimize set
CompiledPlain ==
  /\ op = "mrb_generate_code" /\ in.failAt = 0
  /\ g.no_optimize /\ g.result = "proc"

C16_PlainNotShorter ==
  CompiledPlain =>
    /\ Peepholed.result = "proc"
    /\ Len(Peepholed.ireps) = Len(g.ireps)
    /\ \A i \in 1..Len(g.ireps) : g.ireps[i].ilen >= Peepholed.ireps[i].ilen

\* a tree compiled into a procedure that is strictly shorter with the peephole
C16_PeepholeShorter ==
  /\ CompiledPlain
  /\ Len(Peepholed.ireps) = Len(g.ireps)
  /\ \E i \in 1..Len(g.ireps) : g.ireps[i].ilen > Peepholed.ireps[i].ilen

(* ------------------------------------------------------------------ *)
(* LitSpec: new_lit applied again and again to the pool of one scope.  *)
(* in.val is the literal of the last call and in.pool the pool before  *)
(* it.                                                                 *)
(* ------------------------------------------------------------------ *)
MaxNewLit == 34

\* the k-th literal: the empty string, the string of two zero bytes, then
\* each number 0, 1, 2, ... as a fixnum, as the one-byte string of that byte
\* and as a float; the bytes of a string are written as the number they spell
Lit(k) ==
  LET v == (k - 3) \div 3
  IN CASE k = 1 -> StrLit(0, 0)
       [] k = 2 -> StrLit(0, 2)
       [] k >= 3 /\ k % 3 = 0 -> FixLit(v)
       [] k >= 3 /\ k % 3 = 1 -> StrLit(v, 1)
       [] OTHER -> FloatLit(v)

LitInit ==
  /\ g = Fresh(0, FALSE)
  /\ in = [val |-> FixLit(0), pool |-> <<>>]
  /\ op = "init"

LitScopeNew ==
  /\ op = "init"
  /\ g' = scope_new(scope_new_root(g), <<va>>)
  /\ in' = in
  /\ op' = "scope_new"

\* the literals a call is tried with: the first ones and the latest ones of
\* the run, and the one not seen before
LitCandidates ==
  LET n == Len(Cur(g).pool)
  IN {Lit(k) : k \in {1, 2, 3, 4, 5, n - 1, n, n + 1} \ {-1, 0}}

NewLit ==
  /\ op \in {"scope_new", "new_lit"} /\ Ok(g)
  /\ Len(Cur(g).pool) < MaxNewLit
  /\ \E val \in LitCandidates :
       /\ g' = new_lit(g, val)
       /\ in' = [val |-> val, pool |-> Cur(g).pool]
  /\ op' = "new_lit"

LitNext == LitScopeNew \/ NewLit

LitSpec == LitInit /\ [][LitNext]_vars

\* ---------------------------------------------------------------------------
\* C17 - new_lit(s, val) for a fixnum or a string: when the pool holds an
\* entry of the type of val equal to it (the same integer, the same length
\* and bytes) the call returns the index of that entry and leaves the pool as
\* it was; otherwise it appends val at index plen and returns that index.  The
\* pool never holds two equal entries of one type, and the entry returned is
\* of the type of val.
NoTwoEqual(pool) == \A i, j \in 1..Len(pool) : pool[i] = pool[j] => i = j

C17_PoolDeduplicated ==
  (op = "new_lit" /\ Ok(g)) =>
    LET pool == Cur(g).pool
        found == {i \in 1..Len(in.pool) : in.pool[i] = in.val}
    IN /\ NoTwoEqual(pool)
       /\ in.val.tt \in {"FIXNUM", "STRING"} =>
            /\ found # {} => pool = in.pool /\ (g.ret + 1) \in found
            /\ found = {} => pool = Append(in.pool, in.val) /\ g.ret = Len(in.pool)
            /\ pool[g.ret + 1] = in.val

\* the pool holds the number 1 as a fixnum, as a string and as a float in
\* three entries, and the last call found the fixnum again
C17_ThreeTypesApart ==
  /\ op = "new_lit" /\ Ok(g)
  /\ {FixLit(1), StrLit(1, 1), FloatLit(1)} \subseteq {Cur(g).pool[i] : i \in 1..Len(Cur(g).pool)}
  /\ in.val \in {FixLit(0), StrLit(0, 1), StrLit(0, 2)}
  /\ Cur(g).pool = in.pool

\* ---------------------------------------------------------------------------
\* C18 - a break inside a while/until loop, under begin/rescue nests only
\* (no block, lambda, for, def or class body between the break and the loop),
\* leaves the loop by a JMP: the code of the loop holds no RETURN R_BREAK, in
\* whatever order the begin bodies and rescue handlers enclose the break.
ScopeKinds == {"LAMBDA", "BLOCK", "FOR", "DEF", "SDEF", "CLASS", "SCLASS", "MODULE", "SCOPE"}

RECURSIVE HasKind(_, _)
HasKind(tree, kinds) ==
  \/ tree.nt \in kinds
  \/ \E i \in 1..Len(tree.k) : HasKind(tree.k[i], kinds)
  \/ \E i \in 1..Len(tree.l) : HasKind(tree.l[i], kinds)

\* codegen has lowered a while/until loop whose breaks all belong to it
LoopWithBreakLowered ==
  /\ op = "codegen" /\ Ok(g)
  /\ in.tree.nt \in {"WHILE", "UNTIL"}
  /\ HasKind(in.tree, {"BREAK"}) /\ ~HasKind(in.tree, ScopeKinds)

C18_BreakLeavesByJump ==
  LoopWithBreakLowered =>
    \A q \in 1..Cur(g).pc :
      ~(GET_OPCODE(Cur(g).iseq[q]) = "RETURN" /\ GETARG_B(Cur(g).iseq[q]) = OP_R_BREAK)

\* ---------------------------------------------------------------------------
\* C19 - a break, next or redo that leaves one ensure region opened inside
\* its while/until loop emits EPOP 1 before it transfers control: the code of
\* a loop whose body is one begin/ensure, with the transfers in the protected
\* part under begin/rescue nests only, holds one EPOP 1 for each transfer
\* besides the EPOP 1 that closes the region on the normal path.
RECURSIVE CountKind(_, _)
CountKind(tree, kinds) ==
  LET SumK[i \in 0..Len(tree.k)] == IF i = 0 THEN 0 ELSE SumK[i - 1] + CountKind(tree.k[i], kinds)
      SumL[i \in 0..Len(tree.l)] == IF i = 0 THEN 0 ELSE SumL[i - 1] + CountKind(tree.l[i], kinds)
  IN (IF tree.nt \in kinds THEN 1 ELSE 0) + SumK[Len(tree.k)] + SumL[Len(tree.l)]

\* codegen has lowered a loop whose body is a begin/ensure with break, next
\* or redo in its protected part and no other loop, ensure or scope there
EnsuredExitLowered ==
  /\ op = "codegen" /\ Ok(g)
  /\ in.tree.nt \in {"WHILE", "UNTIL"}
  /\ in.tree.k[2].nt = "ENSURE"
  /\ HasKind(in.tree.k[2].k[1], {"BREAK", "NEXT", "REDO"})
  /\ ~HasKind(in.tree.k[2].k[1], ScopeKinds \cup {"ENSURE", "WHILE", "UNTIL"})

C19_EpopForEveryExit ==
  EnsuredExitLowered =>
    LET code == Cur(g).iseq
    IN /\ CountOp(code, "EPOP") = 1 + CountKind(in.tree.k[2].k[1], {"BREAK", "NEXT", "REDO"})
       /\ \A q \in 1..Len(code) : GET_OPCODE(code[q]) = "EPOP" => GETARG_A(code[q]) = 1

\* the break directly in the protected part of the ensure: EPOP 1 for the
\* break and EPOP 1 at the end of the region
EpopBeforePlainBreak ==
  /\ EnsuredExitLowered
  /\ in.tree.k[2].k[1].nt = "BREAK"
  /\ CountOp(Cur(g).iseq, "EPOP") = 2

\* ---------------------------------------------------------------------------
\* C20 - when codegen(s, node, val) returns, the loop stack of the scope has
\* the depth it had at entry (in.loops) and ensure_level the value it had at
\* entry (0 in the scope scope_new has just made): every loop_push done while
\* the node was lowered has been matched by a loop_pop.
C20_LoopStackRestored ==
  (op = "codegen" /\ Ok(g)) =>
    /\ Len(Cur(g).loop) = in.loops
    /\ Cur(g).ensure_level = 0

\* ---------------------------------------------------------------------------
\* C21 - every redo inside a while/until loop lowered from pc 0 (no other
\* loop and no scope between the redo and the loop) is a backward JMP to the
\* loop's pc2, the first instruction of the body at pc 1, with or without
\* begin/rescue around the redo: the loop's code holds one such JMP for each
\* redo.
RedoLowered ==
  /\ op = "codegen" /\ Ok(g)
  /\ in.tree.nt \in {"WHILE", "UNTIL"}
  /\ HasKind(in.tree.k[2], {"REDO"})
  /\ ~HasKind(in.tree.k[2], ScopeKinds \cup {"WHILE", "UNTIL"})

\* the unconditional jumps of the code to the instruction at pc that do not
\* go forward (a redo that is the first instruction of the body jumps to itself)
JumpsBackTo(code, pc) ==
  {q \in 1..Len(code) : /\ GET_OPCODE(code[q]) = "JMP"
                        /\ GETARG_sBx(code[q]) <= 0
                        /\ (q - 1) + GETARG_sBx(code[q]) = pc}

C21_RedoRestartsBody ==
  RedoLowered =>
    Cardinality(JumpsBackTo(Cur(g).iseq, 1)) = CountKind(in.tree.k[2], {"REDO"})

\* the redo directly in the loop body does jump back to pc 1
RedoInPlainLoop ==
  /\ RedoLowered /\ in.tree.k[2].nt = "REDO"
  /\ JumpsBackTo(Cur(g).iseq, 1) # {}

\* ---------------------------------------------------------------------------
\* C22 - a while/until loop lowered in VAL mode from pc 0 (no other loop and
\* no scope inside): on every way to the instruction after the loop the
\* register of the loop's value, in.sp, has just been written by the loop's
\* code.  The code ends with the write on the normal path, and each jump to
\* the instruction after the loop (a break) follows a write to that register,
\* with only POPERR and EPOP in between.
LoopValueLowered ==
  /\ op = "codegen" /\ Ok(g) /\ in.val = VAL
  /\ in.tree.nt \in {"WHILE", "UNTIL"}
  /\ ~HasKind(in.tree.k[2], ScopeKinds \cup {"WHILE", "UNTIL"})
  /\ Cur(g).pending = {}

\* the opcodes that write their register A
WriteOps ==
  {"MOVE", "LOADL", "LOADI", "LOADSYM", "LOADNIL", "LOADSELF", "LOADT", "LOADF",
   "GETGLOBAL", "GETIV", "GETCV", "GETCONST", "GETMCNST", "GETUPVAR", "SEND", "SENDB",
   "ARRAY", "HASH", "STRING", "LAMBDA", "RANGE", "ADD", "SUB", "ADDI", "SUBI"}

\* the last instruction at or before index q that is no POPERR and no EPOP; 0 if none
RECURSIVE LastBefore(_, _)
LastBefore(code, q) ==
  IF q = 0 THEN 0
  ELSE IF GET_OPCODE(code[q]) \in {"POPERR", "EPOP"} THEN LastBefore(code, q - 1)
  ELSE q

WrittenBefore(code, q, reg) ==
  LET w == LastBefore(code, q)
  IN w > 0 /\ GET_OPCODE(code[w]) \in WriteOps /\ GETARG_A(code[w]) = reg

\* the jumps of the code to the instruction at pc
JumpsTo(code, pc) ==
  {q \in 1..Len(code) : GET_OPCODE(code[q]) \in JumpOps /\ (q - 1) + GETARG_sBx(code[q]) = pc}

C22_LoopValueWritten ==
  LoopValueLowered =>
    LET code == Cur(g).iseq
    IN /\ WrittenBefore(code, Len(code), in.sp)
       /\ \A q \in JumpsTo(code, Len(code)) : WrittenBefore(code, q - 1, in.sp)

\* a loop left by a break with a value: the jump out follows the write of
\* the value
BreakValueWritten ==
  /\ LoopValueLowered /\ in.tree.k[2] = nOne("BREAK", one)
  /\ JumpsTo(Cur(g).iseq, Cur(g).pc) # {}
  /\ \A q \in JumpsTo(Cur(g).iseq, Cur(g).pc) : WrittenBefore(Cur(g).iseq, q - 1, in.sp)

(* ------------------------------------------------------------------ *)
(* FuseSpec: the pairs of instructions the peephole looks at.  One      *)
(* instruction is put into the buffer of a scope with the local a       *)
(* (registers 0 and 1 are self and a, the temporaries start at 2) by    *)
(* genop, with or without a label after it, and a second one is handed  *)
(* to genop_peep.  The pool holds the strings the STRING instructions   *)
(* name.  After genop_peep, in records the instruction handed to it and *)
(* pc, lastlabel and the code before the call.                          *)
(* ------------------------------------------------------------------ *)
\* the strings of the pool: the empty one and one of one byte
FuseLits == {StrLit(0, 0), StrLit(1, 1)}

\* the first instruction: loads of small and large integers into the
\* argument register 3 of a call with receiver in 2, into the receiver
\* register and into a register further up, strings, nil, and moves into a
\* temporary and into the local
FirstInstrs ==
  { MKOP_AsBx("LOADI", 3, k) : k \in {0, 1, -1, 127, -127, 128, -128} }
    \cup { MKOP_AsBx("LOADI", 2, 1), MKOP_AsBx("LOADI", 4, 1),
           MKOP_ABx("STRING", 3, 0), MKOP_ABx("STRING", 3, 1),
           MKOP_A("LOADNIL", 3), MKOP_A("LOADSELF", 3),
           MKOP_AB("MOVE", 2, 1), MKOP_AB("MOVE", 3, 1), MKOP_AB("MOVE", 1, 2) }

\* the second instruction: ADD and SUB of the receiver in register 2 with
\* method symbol 0 or 3 and 0, 1 or 2 arguments, STRCAT, and RETURN
SecondInstrs ==
  { MKOP_ABC(o, 2, b, n) : o \in {"ADD", "SUB"}, b \in {0, 3}, n \in {0, 1, 2} }
    \cup { MKOP_AB("STRCAT", 2, 3),
           MKOP_AB("RETURN", 2, OP_R_NORMAL), MKOP_AB("RETURN", 3, OP_R_NORMAL) }

FuseInit ==
  /\ g \in {Fresh(0, n) : n \in BOOLEAN}
  /\ in = NoPeep
  /\ op = "init"

FuseScopeNew ==
  /\ op = "init"
  /\ g' = scope_new(scope_new_root(g), <<va>>)
  /\ in' = in
  /\ op' = "scope_new"

FuseNewLit ==
  /\ op \in {"scope_new", "new_lit"}
  /\ \E v \in FuseLits :
       /\ g' = new_lit(g, v)
       /\ in' = NoPeep
  /\ op' = "new_lit"

FuseGenop ==
  /\ op \in {"scope_new", "new_lit"}
  /\ \E i \in FirstInstrs :
       /\ GET_OPCODE(i) = "STRING" => GETARG_Bx(i) < Len(Cur(g).pool)
       /\ g' = genop(g, i)
       /\ in' = NoPeep
  /\ op' = "genop"

FuseNewLabel ==
  /\ op = "genop"
  /\ g' = new_label(g)
  /\ in' = NoPeep
  /\ op' = "new_label"

FuseGenopPeep ==
  /\ op \in {"genop", "new_label"}
  /\ \E i \in SecondInstrs, val \in {NOVAL, VAL} :
       /\ g' = genop_peep(g, i, val)
       /\ in' = Before(i, val)
  /\ op' = "genop_peep"

FuseNext == FuseScopeNew \/ FuseNewLit \/ FuseGenop \/ FuseNewLabel \/ FuseGenopPeep

FuseSpec == FuseInit /\ [][FuseNext]_vars

\* genop_peep has been handed an instruction of one of the opcodes ops
PeepOf(ops) == op = "genop_peep" /\ Ok(g) /\ GET_OPCODE(in.i) \in ops

\* the instruction before the one handed to genop_peep, and the last one after
PrevInstr == in.iseq[in.pc]
LastInstr == Cur(g).iseq[Cur(g).pc]

\* ---------------------------------------------------------------------------
\* C23 - genop_peep never elides an ADD or SUB: after the call the buffer is
\* not shorter than before and its last instruction is the ADD/SUB handed in
\* or an ADDI/SUBI of the same register and method.
C23_AddSubNeverElided ==
  PeepOf({"ADD", "SUB"}) =>
    /\ Cur(g).pc >= in.pc
    /\ \/ LastInstr = in.i
       \/ /\ GET_OPCODE(LastInstr) \in {"ADDI", "SUBI"}
          /\ GETARG_A(LastInstr) = GETARG_A(in.i)
          /\ GETARG_B(LastInstr) = GETARG_B(in.i)

\* an ADD after a load of 1 into its argument register became ADDI ..., 1
AddFusedToAddi ==
  /\ PeepOf({"ADD"}) /\ GETARG_C(in.i) = 1
  /\ PrevInstr = MKOP_AsBx("LOADI", 3, 1)
  /\ Cur(g).pc = in.pc
  /\ LastInstr = MKOP_ABC("ADDI", 2, GETARG_B(in.i), 1)


\* ---------------------------------------------------------------------------
\* C24 - genop_peep rewrites an ADD/SUB into ADDI/SUBI only when the ADD/SUB
\* has argument count 1 and the instruction before it is a LOADI of k into
\* its argument register A+1 with |k| <= 127 after negating k for SUB; the
\* rewritten instruction is ADDI with the adjusted k when that is >= 0 and
\* SUBI with its negation otherwise.
C24_FusedOnlyForOneArgument ==
  (PeepOf({"ADD", "SUB"}) /\ Cur(g).pc > 0
     /\ GET_OPCODE(LastInstr) \in {"ADDI", "SUBI"}) =>
    LET k == IF GET_OPCODE(in.i) = "SUB" THEN 0 - GETARG_sBx(PrevInstr)
             ELSE GETARG_sBx(PrevInstr)
    IN /\ GETARG_C(in.i) = 1
       /\ GET_OPCODE(PrevInstr) = "LOADI"
       /\ GETARG_A(PrevInstr) = GETARG_A(in.i) + 1
       /\ k <= 127 /\ k >= -127
       /\ LastInstr = IF k >= 0
                      THEN MKOP_ABC("ADDI", GETARG_A(in.i), GETARG_B(in.i), k)
                      ELSE MKOP_ABC("SUBI", GETARG_A(in.i), GETARG_B(in.i), 0 - k)

\* a SUB after a load of -127 into its argument register became ADDI ..., 127
SubFusedToAddi ==
  /\ PeepOf({"SUB"}) /\ GETARG_C(in.i) = 1
  /\ PrevInstr = MKOP_AsBx("LOADI", 3, -127)
  /\ LastInstr = MKOP_ABC("ADDI", 2, GETARG_B(in.i), 127)


C26_StoresInsideAllocation ==
  (op \in {"new_sym", "new_msym"} /\ Ok(g) /\ Cur(g).syms # in.syms) =>
    /\ Cur(g).symalloc \in {ScapaInit, SymCapaDense}
    /\ g.ret < Cur(g).symalloc
    /\ (op = "new_sym" /\ Len(in.syms) > SymDense) =>
         /\ g.ret >= MsymWindow
         /\ \A j \in (Len(in.syms) + 1)..MsymWindow : Cur(g).syms[j] = 0

\* new_sym padded a table of 126 entries and stored the new symbol at 256
SymStoredAfterPadding ==
  /\ op = "new_sym" /\ Ok(g) /\ Len(in.syms) = SymDense + 1
  /\ g.ret = MsymWindow /\ Cur(g).symalloc = SymCapaDense
  /\ Cur(g).syms[MsymWindow + 1] = in.sym


(* ------------------------------------------------------------------ *)
(* StackSpec: the register stack of one scope filled to its limit.      *)
(* push and push_n (with the small counts gen_vmassignment passes) run  *)
(* until one of them raises the compile error; a pop_n may take back    *)
(* what the last call pushed.  in records the count handed to the last  *)
(* operation and the sp before it.                                      *)
(* ------------------------------------------------------------------ *)
StackOps == {"scope_new", "push", "push_n", "pop_n"}

StackInit ==
  /\ g = Fresh(0, FALSE)
  /\ in = [n |-> 0, sp |-> 0]
  /\ op = "init"

StackScopeNew ==
  /\ op = "init"
  /\ g' = scope_new(scope_new_root(g), <<va>>)
  /\ in' = [n |-> 0, sp |-> 0]
  /\ op' = "scope_new"

StackPush ==
  /\ op \in StackOps /\ Ok(g)
  /\ g' = push_(g)
  /\ in' = [n |-> 1, sp |-> cursp(g)]
  /\ op' = "push"

StackPushN ==
  /\ op \in StackOps /\ Ok(g)
  /\ \E n \in 0..MaxPushN :
       /\ g' = push_n_(g, n)
       /\ in' = [n |-> n, sp |-> cursp(g)]
  /\ op' = "push_n"

StackPopN ==
  /\ op \in {"push", "push_n"} /\ Ok(g)
  /\ in.n > 0
  /\ g' = pop_n(g, in.n)
  /\ in' = [n |-> 0, sp |-> cursp(g)]
  /\ op' = "pop_n"

StackNext == StackScopeNew \/ StackPush \/ StackPushN \/ StackPopN

StackSpec == StackInit /\ [][StackNext]_vars

\* ---------------------------------------------------------------------------
\* C27 - sp never exceeds 511: push and push_n raise "too complex expression"
\* instead of letting sp rise above 511, both at the same bound, so that a
\* register taken from cursp() fits the 9-bit A field.
C27_SpWithinAField ==
  op \in StackOps =>
    /\ cursp(g) <= 511
    /\ (op \in {"push", "push_n"} /\ in.sp + in.n > 511) =>
         g.err = "too complex expression"

\* push_n refused to raise sp from 510 to 512
PushNRefusedAtLimit ==
  /\ op = "push_n" /\ in.sp = 510 /\ in.n = 2
  /\ g.err = "too complex expression" /\ cursp(g) = 510


(* ------------------------------------------------------------------ *)
(* MasgnSpec: NODE_MASGN with a fixed right-hand side.  The statement   *)
(*   @p1, .., *@r, @q1, .. = 1, .., 1                                   *)
(* with pre targets before the rest target, post targets after it and   *)
(* len values is lowered by codegen in the scope of a program with the  *)
(* local a.  Every target is an instance (or global) variable of its    *)
(* own name, so that each assignment is one SETIV (SETGLOBAL) whose     *)
(* register and symbol can be read off the code.  in records the        *)
(* counts and the sp at entry, the register rhs.                        *)
(* ------------------------------------------------------------------ *)
MaxTargets == 2
MaxRhs == 4

PreSym(i) == UserSym(10 + i)
PostSym(i) == UserSym(20 + i)
RestSym == UserSym(30)

Targets(kind, n, Name(_)) == [i \in 1..n |-> nVar(kind, Name(i))]

\* the parser's tree of the statement: the MLHS node holds the pre list,
\* the rest target and the post list
Masgn(kind, npre, rest, npost, len) ==
  LET mlhs == Nd("MLHS",
                 <<IF rest THEN nVar(kind, RestSym) ELSE NULL,
                   IF npost > 0 THEN nList("POST", Targets(kind, npost, PostSym)) ELSE NULL>>,
                 Targets(kind, npre, PreSym), 0, IF rest THEN 1 ELSE 0, <<>>)
  IN nBin("MASGN", mlhs, nList("ARRAY", Rep(len, one)))

MasgnInit ==
  /\ g \in {Fresh(0, n) : n \in BOOLEAN}
  /\ in = [kind |-> "IVAR", pre |-> 0, rest |-> FALSE, post |-> 0, len |-> 0,
           val |-> NOVAL, sp |-> 0]
  /\ op = "init"

MasgnScopeNew ==
  /\ op = "init"
  /\ g' = scope_new(scope_new_root(g), <<va>>)
  /\ in' = in
  /\ op' = "scope_new"

\* a post target needs the rest target before it
MasgnCodegen ==
  /\ op = "scope_new"
  /\ \E kind \in {"IVAR", "GVAR"}, npre \in 0..MaxTargets, rest \in BOOLEAN,
        npost \in 0..MaxTargets, len \in 0..MaxRhs, val \in {NOVAL, VAL} :
       /\ npre + npost > 0 \/ rest
       /\ npost > 0 => rest
       /\ g' = codegen(g, Masgn(kind, npre, rest, npost, len), val)
       /\ in' = [kind |-> kind, pre |-> npre, rest |-> rest, post |-> npost,
                 len |-> len, val |-> val, sp |-> cursp(g)]
  /\ op' = "codegen"

MasgnNext == MasgnScopeNew \/ MasgnCodegen

MasgnSpec == MasgnInit /\ [][MasgnNext]_vars

\* the instructions of the code that assign to the variable named sym
AssignsTo(sym) ==
  LET s == Cur(g)
  IN {q \in 1..Len(s.iseq) :
        /\ GET_OPCODE(s.iseq[q]) \in {"SETIV", "SETGLOBAL"}
        /\ s.syms[GETARG_Bx(s.iseq[q]) + 1] = sym}

\* the variable named sym is assigned exactly once, from register reg
AssignedOnceFrom(sym, reg) ==
  /\ Cardinality(AssignsTo(sym)) = 1
  /\ \A q \in AssignsTo(sym) : GETARG_A(Cur(g).iseq[q]) = reg

RestCount == IF in.len < in.pre + in.post THEN 0 ELSE in.len - in.pre - in.post

\* ---------------------------------------------------------------------------
\* C28 - in a fixed-RHS MASGN with len values in the registers rhs..rhs+len-1,
\* for every pre, rest and post count and every len: each pre and each post
\* target is assigned exactly once, from a register inside rhs..rhs+len-1
\* (pre i from rhs+i, post i from rhs+pre+rn+i with rn = max(0, len-pre-post)),
\* and the rest target is assigned an ARRAY of rn elements starting at rhs+pre.
C28_EveryTargetFromItsValue ==
  (op = "codegen" /\ Ok(g)) =>
    LET rhs == in.sp
        code == Cur(g).iseq
    IN /\ \A i \in 1..in.pre :
            /\ AssignedOnceFrom(PreSym(i), rhs + i - 1)
            /\ rhs + i - 1 <= rhs + in.len - 1
       /\ \A i \in 1..in.post :
            /\ AssignedOnceFrom(PostSym(i), rhs + in.pre + RestCount + i - 1)
            /\ rhs + in.pre + RestCount + i - 1 <= rhs + in.len - 1
       /\ in.rest =>
            /\ Cardinality(AssignsTo(RestSym)) = 1
            /\ \A q \in AssignsTo(RestSym) :
                 /\ q > 1
                 /\ code[q - 1] = MKOP_ABC("ARRAY", GETARG_A(code[q]), rhs + in.pre, RestCount)

\* a, *r, z = 1, 1, 1, 1: r is assigned the array of the two middle values
\* and z the last one
MasgnWithRestOfTwo ==
  /\ op = "codegen" /\ Ok(g)
  /\ in.pre = 1 /\ in.rest /\ in.post = 1 /\ in.len = 4
  /\ AssignedOnceFrom(PreSym(1), in.sp)
  /\ AssignedOnceFrom(PostSym(1), in.sp + 3)
  /\ \E q \in AssignsTo(RestSym) :
       Cur(g).iseq[q - 1] = MKOP_ABC("ARRAY", in.sp + 4, in.sp + 1, 2)


(* ------------------------------------------------------------------ *)
(* ReadSpec: integer literals at the limits of mrb_int.  A text is      *)
(* built from a stem (nothing, a sign, or the leading digits of         *)
(* MRB_INT_MAX or of the number after them) and up to MaxDigits more    *)
(* characters, the last of the set being no digit of the base; then     *)
(* readint_mrb_int reads it, or codegen lowers the NODE_INT (under      *)
(* NODE_NEGATE when neg is set) in VAL mode.  in records the text, the  *)
(* base, neg, how many characters were added and what readint_mrb_int   *)
(* returned.                                                            *)
(* ------------------------------------------------------------------ *)
MaxDigits == 2

Bases == {2, 8, 10, 16, 36}

\* the digits of v >= 0 in the base, most significant first
RECURSIVE DigitsOf(_, _)
DigitsOf(v, base) ==
  IF v < base THEN <<v>> ELSE Append(DigitsOf(v \div base, base), v % base)

Stems(base) ==
  { <<>>, <<PlusSign>>,
    DigitsOf(MRB_INT_MAX \div base, base),
    DigitsOf((MRB_INT_MAX \div base) + 1, base),
    <<0>> \o DigitsOf(MRB_INT_MAX \div base, base) }

\* the characters added to a stem: the smallest and largest digits, those
\* around the last digit of MRB_INT_MAX, and one that is no digit
MoreChars(base) ==
  {0, 1, base - 1, base}
    \cup {d \in 0..(base - 1) : d >= (MRB_INT_MAX % base) - 1 /\ d <= (MRB_INT_MAX % base) + 2}

NoResult == [malformed |-> FALSE, overflow |-> FALSE, result |-> 0]

ReadInit ==
  /\ g = Fresh(0, FALSE)
  /\ in \in {[text |-> <<>>, base |-> b, neg |-> n, added |-> 0, r |-> NoResult] :
               b \in Bases, n \in BOOLEAN}
  /\ op = "init"

ReadScopeNew ==
  /\ op = "init"
  /\ g' = scope_new(scope_new_root(g), <<va>>)
  /\ \E stem \in Stems(in.base) : in' = [in EXCEPT !.text = stem]
  /\ op' = "scope_new"

ReadMoreText ==
  /\ op \in {"scope_new", "text"}
  /\ in.added < MaxDigits
  /\ \E d \in MoreChars(in.base) :
       in' = [in EXCEPT !.text = Append(@, d), !.added = @ + 1]
  /\ g' = g
  /\ op' = "text"

ReadintMrbInt ==
  /\ op \in {"scope_new", "text"}
  /\ in' = [in EXCEPT !.r = readint_mrb_int(in.text, in.base, in.neg)]
  /\ g' = g
  /\ op' = "readint_mrb_int"

ReadCodegen ==
  /\ op \in {"scope_new", "text"}
  /\ LET lit == Nd("INT", <<>>, <<>>, 0, in.base, in.text)
     IN g' = codegen(g, IF in.neg THEN nOne("NEGATE", lit) ELSE lit, VAL)
  /\ in' = [in EXCEPT !.r = readint_mrb_int(in.text, in.base, in.neg)]
  /\ op' = "codegen"

ReadNext == ReadScopeNew \/ ReadMoreText \/ ReadintMrbInt \/ ReadCodegen

ReadSpec == ReadInit /\ [][ReadNext]_vars

\* The value of a digit string as a number of two limbs, hi * 65536 + lo,
\* with hi cut off at HiCap: a value with hi = HiCap is larger than any
\* mrb_int and no more is known about it.
Limb == 256 * 256
HiCap == Limb - 1

RECURSIVE LimbValue(_, _, _, _)
LimbValue(p, i, base, v) ==
  IF i > Len(p) \/ v.hi >= HiCap THEN v
  ELSE LET lo == v.lo * base + p[i]
           hi == v.hi * base + (lo \div Limb)
       IN LimbValue(p, i + 1, base,
                    [hi |-> IF hi > HiCap THEN HiCap ELSE hi, lo |-> lo % Limb])

TextValue == LimbValue(StripPlus(in.text), 1, in.base, [hi |-> 0, lo |-> 0])

WellFormed == \A i \in 1..Len(StripPlus(in.text)) :
                StripPlus(in.text)[i] >= 0 /\ StripPlus(in.text)[i] < in.base

\* the value, negated when neg is set, lies in MRB_INT_MIN..MRB_INT_MAX:
\* MRB_INT_MAX has the limbs TopLimb - 1 and Limb - 1, -MRB_INT_MIN the
\* limbs TopLimb and 0
TopLimb == (MRB_INT_MAX \div Limb) + 1

ValueInRange ==
  IF in.neg THEN TextValue.hi < TopLimb \/ (TextValue.hi = TopLimb /\ TextValue.lo = 0)
  ELSE TextValue.hi < TopLimb

SignedValue ==
  IF in.neg THEN (0 - TextValue.hi) * Limb - TextValue.lo
  ELSE TextValue.hi * Limb + TextValue.lo

\* ---------------------------------------------------------------------------
\* C29 - readint_mrb_int(text, base, neg) sets overflow exactly when the
\* value of the digit string, negated when neg is set, lies outside
\* MRB_INT_MIN..MRB_INT_MAX, and otherwise returns exactly that value with
\* no intermediate result leaving the range of mrb_int; the most negative
\* integer is read without overflow under NEGATE; and a literal that
\* overflows is lowered as a LOADL of a float.
C29_OverflowExactlyOutsideRange ==
  /\ (op \in {"readint_mrb_int", "codegen"} /\ WellFormed) =>
       /\ ~in.r.malformed
       /\ in.r.overflow <=> ~ValueInRange
       /\ ~in.r.overflow => in.r.result = SignedValue
  /\ (op = "codegen" /\ WellFormed /\ in.r.overflow) =>
       /\ Ok(g)
       /\ LET s == Cur(g)
              last == s.iseq[s.pc]
          IN /\ GET_OPCODE(last) = "LOADL"
             /\ s.pool[GETARG_Bx(last) + 1].tt = "FLOAT"

\* -2147483648 was read without overflow although 2147483648 overflows
MostNegativeRead ==
  /\ op = "readint_mrb_int" /\ in.neg /\ in.base = 10
  /\ in.text = <<2, 1, 4, 7, 4, 8, 3, 6, 4, 8>>
  /\ ~in.r.overflow /\ in.r.result = MRB_INT_MIN
  /\ readint_mrb_int(in.text, in.base, FALSE).overflow


(* ------------------------------------------------------------------ *)
(* ChainSpec: chains of jumps and dispatch_linked.  Into the code of    *)
(* one scope go plain instructions, jumps already resolved, and jumps   *)
(* put on the chain the way loop_break and NODE_CASE do it              *)
(* (tmp = genop(JMP head); head = tmp); dispatch_linked is called on    *)
(* the head at any moment, after which a new chain starts.  A chained   *)
(* jump is never the first instruction of the code.  in records the     *)
(* head, the pcs of the chain in emission order and, after              *)
(* dispatch_linked, pc, lastlabel and the code before the call.         *)
(* ------------------------------------------------------------------ *)
MaxChainPc == 5

ChainOps == {"scope_new", "genop", "chain", "dispatch_linked"}

NoChain == [head |-> 0, chain |-> <<>>, pc |-> 0, lastlabel |-> 0, iseq |-> <<>>]

\* the chain being built: none right after dispatch_linked
Chain == IF op = "dispatch_linked" THEN NoChain ELSE in

ChainInit ==
  /\ g = Fresh(0, FALSE)
  /\ in = NoChain
  /\ op = "init"

ChainScopeNew ==
  /\ op = "init"
  /\ g' = scope_new(scope_new_root(g), <<va>>)
  /\ in' = in
  /\ op' = "scope_new"

\* an instruction that is on no chain: a load, or a jump back to the start
ChainGenop ==
  /\ op \in ChainOps
  /\ Cur(g).pc < MaxChainPc
  /\ \E i \in {MKOP_A("LOADNIL", 2), MKOP_sBx("JMP", 0 - Cur(g).pc),
               MKOP_AsBx("JMPIF", 2, 1)} :
       g' = genop(g, i)
  /\ in' = Chain
  /\ op' = "genop"

\* tmp = genop(s, MKOP_sBx(OP_JMP, head)); head = tmp
ChainJump ==
  /\ op \in ChainOps
  /\ Cur(g).pc > 0 /\ Cur(g).pc < MaxChainPc
  /\ \E i \in {MKOP_sBx("JMP", Chain.head), MKOP_AsBx("JMPNOT", 2, Chain.head)} :
       g' = genop(g, i)
  /\ in' = [Chain EXCEPT !.head = g'.ret, !.chain = Append(@, g'.ret)]
  /\ op' = "chain"

ChainDispatchLinked ==
  /\ op \in ChainOps
  /\ g' = dispatch_linked(g, Chain.head)
  /\ in' = [Chain EXCEPT !.pc = Cur(g).pc, !.lastlabel = Cur(g).lastlabel,
                         !.iseq = Cur(g).iseq]
  /\ op' = "dispatch_linked"

ChainNext == ChainScopeNew \/ ChainGenop \/ ChainJump \/ ChainDispatchLinked

ChainSpec == ChainInit /\ [][ChainNext]_vars

\* the pcs of the chain handed to dispatch_linked
OnChain == {in.chain[k] : k \in 1..Len(in.chain)}

\* every jump of the chain transfers control to the pc of the call, keeping
\* its opcode and register, and no other instruction has changed
ChainPatched ==
  LET s == Cur(g)
  IN /\ Ok(g) /\ s.pc = in.pc /\ Len(s.iseq) = Len(in.iseq)
     /\ \A q \in 0..(in.pc - 1) :
          IF q \in OnChain
          THEN s.iseq[q + 1] = MKOP_AsBx(GET_OPCODE(in.iseq[q + 1]),
                                          GETARG_A(in.iseq[q + 1]), in.pc - q)
          ELSE s.iseq[q + 1] = in.iseq[q + 1]

\* before the call each jump of the chain is linked to the one chained
\* before it, the first one to 0, and head is the one emitted last
ChainLinked ==
  /\ in.head = (IF in.chain = <<>> THEN 0 ELSE in.chain[Len(in.chain)])
  /\ \A k \in 1..Len(in.chain) :
       GETARG_sBx(in.iseq[in.chain[k] + 1]) = (IF k = 1 THEN 0 ELSE in.chain[k - 1])

\* ---------------------------------------------------------------------------
\* C30 - dispatch_linked(head) terminates and patches exactly the jumps on
\* the chain starting at head, each linked through its sBx field to the jump
\* chained before it and 0 ending the chain; afterwards every jump of the
\* chain targets the pc that was current at the call, lastlabel equals that
\* pc, and no instruction outside the chain is changed.
C30_ChainPatchedAndLabelSet ==
  op = "dispatch_linked" =>
    /\ ChainLinked
    /\ ChainPatched
    /\ Cur(g).lastlabel = in.pc

\* the same, with lastlabel set only when the chain is not empty:
\* dispatch_linked(0) returns at once and leaves lastlabel as it was
C30_ChainPatchedLabelIfAny ==
  op = "dispatch_linked" =>
    /\ ChainLinked
    /\ ChainPatched
    /\ Cur(g).lastlabel = (IF in.head = 0 THEN in.lastlabel ELSE in.pc)

\* a chain of two jumps with an instruction between them was dispatched
TwoJumpsDispatched ==
  /\ op = "dispatch_linked" /\ Ok(g)
  /\ in.chain = <<1, 3>> /\ in.pc = 4
  /\ Cur(g).iseq[2] = MKOP_sBx("JMP", 3)
  /\ Cur(g).iseq[4] = MKOP_sBx("JMP", 1)
  /\ Cur(g).iseq[3] = in.iseq[3]

====
